---- MODULE Spec2Model ----
(***************************************************************************)
(* babbletui: the two-buffer differential renderer (class TUI), the        *)
(* process.nextTick render scheduling, and a row/cursor model of the       *)
(* terminal that receives the writes.                                      *)
(*                                                                         *)
(* Buffer indices are 0-based as in the TypeScript source; At(buf, i)      *)
(* reads buf[i].                                                           *)
(***************************************************************************)
EXTENDS Integers, Sequences, FiniteSets, TLC

VARIABLES
    oldBuffer,        \* TUI.oldBuffer: string[]
    isFirstRender,    \* TUI.isFirstRender
    renderRequested,  \* TUI.renderRequested
    tickQueue,        \* number of process.nextTick callbacks queued by requestRender
    rootLines,        \* what root.render(width) returns for the current component state
    rows,             \* terminal.rows
    display,          \* the terminal: [lines, cur, saved]
    writes,           \* terminal.write calls made by the last step, in order
    cycle,            \* observation of the last step when it was a render cycle
    lastFrame,        \* <<>> before any cycle, else <<candidate of the last cycle>>
    resized,          \* a resize notification arrived since the last cycle
    focusedComponent, \* TUI.focusedComponent
    onGlobalInput,    \* TUI.onGlobalInput is set
    pt,               \* the ProcessTerminal and the process streams it listens to
    children,         \* Container.children, for each Container object
    op,               \* observation of the last step: the call made and what it did
    batch,            \* what happened since the last render cycle
    life,             \* the start/stop calls made so far, in order
    subject,          \* which component the behaviour exercises
    textComponent,    \* TextComponent: [text, paddingLeft, paddingRight, paddingTop, paddingBottom]
    singleLineInput,  \* SingleLineInput: [value, cursorPosition, scrollOffset, prompt]
    textEditor,       \* TextEditor: [lines, cursorLine, cursorCol, disableSubmit]
    menu,             \* Menu: [entries, selectedIndex]
    callbacks         \* the option callbacks called by the last step, in order

renderVars == <<oldBuffer, isFirstRender, renderRequested, tickQueue, rootLines, rows,
                display, writes, cycle, lastFrame, resized>>

sessionVars == <<focusedComponent, onGlobalInput, pt, children, op, batch, life>>

widgetVars == <<subject, textComponent, singleLineInput, textEditor, menu, callbacks>>

vars == <<oldBuffer, isFirstRender, renderRequested, tickQueue, rootLines, rows,
          display, writes, cycle, lastFrame, resized,
          focusedComponent, onGlobalInput, pt, children, op, batch, life,
          subject, textComponent, singleLineInput, textEditor, menu, callbacks>>

----------------------------------------------------------------------------
(* Bounds *)

MaxLines == 3
MaxRows == 3
MaxBatch == 2
MaxLifecycle == 3
MaxChildren == 3
MaxWidth == 2
MaxText == 5
MaxValue == 2

LineTexts == {"a", "b"}

RECURSIVE BuffersUpTo(_)
BuffersUpTo(n) ==
    IF n = 0 THEN {<<>>}
    ELSE LET shorter == BuffersUpTo(n - 1)
         IN  shorter \cup {Append(b, l) : b \in {s \in shorter : Len(s) = n - 1}, l \in LineTexts}

Buffers == BuffersUpTo(MaxLines)

Max(a, b) == IF a >= b THEN a ELSE b
Min(a, b) == IF a <= b THEN a ELSE b

At(buf, i) == buf[i + 1]

----------------------------------------------------------------------------
(* Escape sequences written by the engine *)

ESC == "^["
ClearScrollback == ESC \o "[3J"
ClearScreen == ESC \o "[2J"
CursorHome == ESC \o "[H"
SaveCursor == ESC \o "[s"
RestoreCursor == ESC \o "[u"
ClearLine == ESC \o "[2K"
CursorUp(n) == ESC \o "[" \o ToString(n) \o "A"
CR == "\r"
LF == "\n"

(* One terminal.write call: the data written, and the buffer index of the   *)
(* line the data carries (-1 for a write that carries no buffer line).      *)
W(data) == [data |-> data, line |-> -1]
WL(data, i) == [data |-> data, line |-> i]

----------------------------------------------------------------------------
(* The terminal: every row from the top of scrollback down to the lowest    *)
(* row the cursor has reached; the rows below are blank and not listed.     *)
(* The visible screen is the last h listed rows. cur is 1-based in lines,   *)
(* saved is the saved cursor's row within the screen. Columns are not       *)
(* modelled: every text the engine writes follows a clear, a carriage       *)
(* return or a line feed (raw mode keeps ONLCR), so it starts a row.        *)

Blank == ""

Top(d, h) == Max(1, Len(d.lines) - h + 1)

TermClearScrollback(d, h) ==
    LET top == Top(d, h)
    IN  [d EXCEPT !.lines = SubSeq(d.lines, top, Len(d.lines)),
                  !.cur = d.cur - (top - 1)]

TermClearScreen(d, h) ==
    [d EXCEPT !.lines = [k \in 1..Len(d.lines) |->
                            IF k >= Top(d, h) THEN Blank ELSE d.lines[k]]]

TermCursorHome(d, h) == [d EXCEPT !.cur = Top(d, h)]

TermSaveCursor(d, h) == [d EXCEPT !.saved = d.cur - Top(d, h) + 1]

TermRestoreCursor(d, h) ==
    LET target == Top(d, h) + Min(d.saved, h) - 1
    IN  [d EXCEPT !.lines = d.lines \o [k \in 1..(target - Len(d.lines)) |-> Blank],
                  !.cur = target]

TermCursorUp(d, n, h) == [d EXCEPT !.cur = Max(Top(d, h), d.cur - n)]

TermLineFeed(d) ==
    IF d.cur = Len(d.lines)
    THEN [d EXCEPT !.lines = Append(d.lines, Blank), !.cur = d.cur + 1]
    ELSE [d EXCEPT !.cur = d.cur + 1]

TermClearLine(d) == [d EXCEPT !.lines[d.cur] = Blank]

TermText(d, text) == [d EXCEPT !.lines[d.cur] = text]

(* The terminal's reading of one written string. *)
Feed(d, data, h) ==
    IF data = ClearScrollback THEN TermClearScrollback(d, h)
    ELSE IF data = ClearScreen THEN TermClearScreen(d, h)
    ELSE IF data = CursorHome THEN TermCursorHome(d, h)
    ELSE IF data = SaveCursor THEN TermSaveCursor(d, h)
    ELSE IF data = RestoreCursor THEN TermRestoreCursor(d, h)
    ELSE IF data = CR THEN d
    ELSE IF data = LF THEN TermLineFeed(d)
    ELSE IF \E n \in 0..(MaxLines + 1) : data = CursorUp(n)
         THEN TermCursorUp(d, CHOOSE n \in 0..(MaxLines + 1) : data = CursorUp(n), h)
    ELSE IF \E t \in LineTexts : data = LF \o t
         THEN TermText(TermLineFeed(d), CHOOSE t \in LineTexts : data = LF \o t)
    ELSE IF \E t \in LineTexts : data = ClearLine \o t
         THEN TermText(TermClearLine(d), CHOOSE t \in LineTexts : data = ClearLine \o t)
    ELSE IF data \in LineTexts THEN TermText(d, data)
    ELSE d

RECURSIVE FeedAll(_, _, _)
FeedAll(d, ws, h) ==
    IF ws = <<>> THEN d ELSE FeedAll(Feed(d, Head(ws).data, h), Tail(ws), h)

RECURSIVE StripBlank(_)
StripBlank(ls) ==
    IF ls # <<>> /\ ls[Len(ls)] = Blank THEN StripBlank(SubSeq(ls, 1, Len(ls) - 1)) ELSE ls

(* The rows the terminal holds, scrollback followed by the screen. *)
Shown(d) == StripBlank(d.lines)

----------------------------------------------------------------------------
(* TUI: the render branches, each giving the terminal.write calls it makes  *)

(* Variant of OutputLines: a line feed after every line, the last included. *)
OutputLines_TrailingBreak(newBuffer, i) ==
    IF i >= Len(newBuffer) THEN <<>>
    ELSE [k \in 1..(2 * (Len(newBuffer) - i)) |->
            IF k % 2 = 1 THEN WL(At(newBuffer, i + (k - 1) \div 2), i + (k - 1) \div 2)
            ELSE W(LF)]

RECURSIVE OutputLines(_, _)
OutputLines(newBuffer, i) ==
    IF i >= Len(newBuffer) THEN <<>>
    ELSE (IF i > 0 THEN <<W(LF)>> ELSE <<>>)
         \o <<WL(At(newBuffer, i), i)>>
         \o OutputLines(newBuffer, i + 1)

RenderFull(newBuffer) ==
    <<W(ClearScrollback), W(ClearScreen), W(CursorHome)>> \o OutputLines(newBuffer, 0)

RECURSIVE GroupLines(_, _, _)
GroupLines(newBuffer, lines, k) ==
    IF k > Len(lines) THEN <<>>
    ELSE <<WL(ClearLine \o At(newBuffer, lines[k]), lines[k])>>
         \o (IF k < Len(lines) THEN <<W(LF)>> ELSE <<>>)
         \o GroupLines(newBuffer, lines, k + 1)

WriteLineGroup(newBuffer, lines, totalLines) ==
    IF Len(lines) = 0 THEN <<>>
    ELSE LET firstLine == lines[1]
             rowFromBottom == totalLines - firstLine
         IN  <<W(SaveCursor), W(CursorUp(rowFromBottom)), W(CR)>>
             \o GroupLines(newBuffer, lines, 1)
             \o <<W(RestoreCursor)>>

(* Variant of UpdateLoop: an unchanged line does not end the group. *)
RECURSIVE UpdateLoop_NoFlush(_, _, _, _)
UpdateLoop_NoFlush(newBuffer, i, currentGroup, totalLines) ==
    IF i >= Min(Len(newBuffer), Len(oldBuffer))
    THEN IF Len(currentGroup) > 0
         THEN WriteLineGroup(newBuffer, currentGroup, totalLines)
         ELSE <<>>
    ELSE IF At(newBuffer, i) # At(oldBuffer, i)
         THEN UpdateLoop_NoFlush(newBuffer, i + 1, Append(currentGroup, i), totalLines)
    ELSE UpdateLoop_NoFlush(newBuffer, i + 1, currentGroup, totalLines)

RECURSIVE UpdateLoop(_, _, _, _)
UpdateLoop(newBuffer, i, currentGroup, totalLines) ==
    IF i >= Min(Len(newBuffer), Len(oldBuffer))
    THEN IF Len(currentGroup) > 0
         THEN WriteLineGroup(newBuffer, currentGroup, totalLines)
         ELSE <<>>
    ELSE IF At(newBuffer, i) # At(oldBuffer, i)
         THEN UpdateLoop(newBuffer, i + 1, Append(currentGroup, i), totalLines)
    ELSE IF Len(currentGroup) > 0
         THEN WriteLineGroup(newBuffer, currentGroup, totalLines)
              \o UpdateLoop(newBuffer, i + 1, <<>>, totalLines)
    ELSE UpdateLoop(newBuffer, i + 1, currentGroup, totalLines)

UpdateViewportLines(newBuffer, fromLine) ==
    UpdateLoop(newBuffer, fromLine, <<>>, Len(newBuffer))

RECURSIVE FirstChanged(_, _, _)
FirstChanged(newBuffer, i, len) ==
    IF i >= len THEN -1
    ELSE IF At(oldBuffer, i) # At(newBuffer, i) THEN i
    ELSE FirstChanged(newBuffer, i + 1, len)

(* Variant of AppendLines: the line break and the line as two writes. *)
AppendLines_SplitBreak(newBuffer, i) ==
    IF i >= Len(newBuffer) THEN <<>>
    ELSE [k \in 1..(2 * (Len(newBuffer) - i)) |->
            IF k % 2 = 1 THEN W(LF)
            ELSE WL(At(newBuffer, i + (k - 2) \div 2), i + (k - 2) \div 2)]

RECURSIVE AppendLines(_, _)
AppendLines(newBuffer, i) ==
    IF i >= Len(newBuffer) THEN <<>>
    ELSE <<WL(LF \o At(newBuffer, i), i)>> \o AppendLines(newBuffer, i + 1)

(* Variant of RenderSameLength: no early return when nothing changed. *)
RenderSameLength_RepaintUnchanged(newBuffer, viewportHeight) ==
    LET len == Len(newBuffer)
        firstChanged == FirstChanged(newBuffer, 0, len)
        viewportStart == Max(0, len - viewportHeight)
    IN  IF firstChanged = -1 \/ firstChanged < viewportStart THEN RenderFull(newBuffer)
        ELSE UpdateViewportLines(newBuffer, firstChanged)

(* Variant of RenderSameLength: <= in place of < at the viewport start. *)
RenderSameLength_BoundaryOffByOne(newBuffer, viewportHeight) ==
    LET len == Len(newBuffer)
        firstChanged == FirstChanged(newBuffer, 0, len)
        viewportStart == Max(0, len - viewportHeight)
    IN  IF firstChanged = -1 THEN <<>>
        ELSE IF firstChanged <= viewportStart THEN RenderFull(newBuffer)
        ELSE UpdateViewportLines(newBuffer, firstChanged)

(* Variant of RenderSameLength: the viewport check left out. *)
RenderSameLength_NoViewportCheck(newBuffer, viewportHeight) ==
    LET len == Len(newBuffer)
        firstChanged == FirstChanged(newBuffer, 0, len)
    IN  IF firstChanged = -1 THEN <<>>
        ELSE UpdateViewportLines(newBuffer, firstChanged)

RenderSameLength(newBuffer, viewportHeight) ==
    LET len == Len(newBuffer)
        firstChanged == FirstChanged(newBuffer, 0, len)
        viewportStart == Max(0, len - viewportHeight)
    IN  IF firstChanged = -1 THEN <<>>
        ELSE IF firstChanged < viewportStart THEN RenderFull(newBuffer)
        ELSE UpdateViewportLines(newBuffer, firstChanged)

(* Variant of RenderGrew: the append loop before updateViewportLines. *)
RenderGrew_AppendFirst(newBuffer, viewportHeight) ==
    LET oldLen == Len(oldBuffer)
        firstChanged == FirstChanged(newBuffer, 0, oldLen)
        viewportStart == Max(0, oldLen - viewportHeight)
    IN  IF firstChanged = -1 THEN AppendLines(newBuffer, oldLen)
        ELSE IF firstChanged < viewportStart THEN RenderFull(newBuffer)
        ELSE AppendLines(newBuffer, oldLen) \o UpdateViewportLines(newBuffer, firstChanged)

RenderGrew(newBuffer, viewportHeight) ==
    LET oldLen == Len(oldBuffer)
        firstChanged == FirstChanged(newBuffer, 0, oldLen)
        viewportStart == Max(0, oldLen - viewportHeight)
    IN  IF firstChanged = -1 THEN AppendLines(newBuffer, oldLen)
        ELSE IF firstChanged < viewportStart THEN RenderFull(newBuffer)
        ELSE UpdateViewportLines(newBuffer, firstChanged) \o AppendLines(newBuffer, oldLen)

(* Variant of RenderDiff: a shrink to a prefix of the old buffer writes nothing. *)
RenderDiff_ShrinkKeepsPrefix(newBuffer, viewportHeight) ==
    LET oldLen == Len(oldBuffer)
        newLen == Len(newBuffer)
    IN  IF oldLen = newLen THEN RenderSameLength(newBuffer, viewportHeight)
        ELSE IF oldLen < newLen THEN RenderGrew(newBuffer, viewportHeight)
        ELSE IF FirstChanged(newBuffer, 0, newLen) = -1 THEN <<>>
        ELSE RenderFull(newBuffer)

RenderDiff(newBuffer, viewportHeight) ==
    LET oldLen == Len(oldBuffer)
        newLen == Len(newBuffer)
    IN  IF oldLen = newLen THEN RenderSameLength(newBuffer, viewportHeight)
        ELSE IF oldLen < newLen THEN RenderGrew(newBuffer, viewportHeight)
        ELSE RenderFull(newBuffer)

(* Variant of RootRender: the lines of the previous cycle instead of a fresh render. *)
RootRender_Stale == oldBuffer

(* renderToScreen: the writes of the cycle, the flag and the buffer it leaves. *)
(* root.render(width): the lines of the component tree in its current state. *)
RootRender == rootLines

CycleWrites(newBuffer, height) ==
    IF isFirstRender THEN RenderFull(newBuffer) ELSE RenderDiff(newBuffer, height)

(* Variant of SwapBuffers: the old buffer kept when the candidate is shorter. *)
SwapBuffers_KeepOnShrink(newBuffer) ==
    IF Len(newBuffer) < Len(oldBuffer) THEN oldBuffer ELSE newBuffer

SwapBuffers(newBuffer) == newBuffer

NoCycle ==
    [ran |-> FALSE, old |-> <<>>, new |-> <<>>, rows |-> 0,
     prevFrame |-> <<>>, afterResize |-> FALSE]

(* Variant of FirstRenderAfter: a rebuild caused by a shorter candidate sets the flag. *)
FirstRenderAfter_SetOnShrink(newBuffer) ==
    ~isFirstRender /\ Len(newBuffer) < Len(oldBuffer)

(* isFirstRender as a completed cycle leaves it: cleared by the forced      *)
(* branch, not assigned by the diffing one.                                 *)
FirstRenderAfter(newBuffer) ==
    IF isFirstRender THEN FALSE ELSE isFirstRender

RenderToScreen ==
    LET height == rows
        newBuffer == RootRender
        out == CycleWrites(newBuffer, height)
    IN  /\ writes' = out
        /\ display' = FeedAll(display, out, rows)
        /\ isFirstRender' = FirstRenderAfter(newBuffer)
        /\ oldBuffer' = SwapBuffers(newBuffer)
        /\ cycle' = [ran |-> TRUE, old |-> oldBuffer, new |-> newBuffer, rows |-> height,
                     prevFrame |-> lastFrame, afterResize |-> resized]
        /\ lastFrame' = <<newBuffer>>
        /\ resized' = FALSE

(* Variant of ScheduleRender: every call defers a render of its own. *)
ScheduleRender_NoFlagCheck ==
    /\ renderRequested' = TRUE
    /\ tickQueue' = tickQueue + 1

(* requestRender's effect on the flag and on the nextTick queue *)
ScheduleRender ==
    IF renderRequested
    THEN UNCHANGED <<renderRequested, tickQueue>>
    ELSE /\ renderRequested' = TRUE
         /\ tickQueue' = tickQueue + 1

----------------------------------------------------------------------------
(* Focus, the global input handler, the ProcessTerminal, Containers          *)

(* What setFocus may be given: undefined, a component with handleInput, a   *)
(* component without.                                                       *)
FocusTargets == {"undefined", "editor", "label"}

HasHandleInput(c) == c = "editor"

(* The chunks the terminal delivers: two keys the editor takes, one it ignores. *)
Chunks == LineTexts \cup {ESC}

(* The focused editor's handleInput: a key it takes becomes its newest line *)
(* while it holds fewer than MaxLines; every other chunk leaves it as it is. *)
ComponentHandleInput(lines, data) ==
    IF data \notin LineTexts THEN lines
    ELSE IF Len(lines) < MaxLines THEN Append(lines, data)
    ELSE lines

(* The component after handleInput was called once for each chunk, in order. *)
RECURSIVE ApplyAll(_, _)
ApplyAll(lines, chunks) ==
    IF chunks = <<>> THEN lines
    ELSE ApplyAll(ComponentHandleInput(lines, Head(chunks)), Tail(chunks))

Containers == {"c1", "c2"}

NoOp == [name |-> "none"]

NoBatch(lines) == [requests |-> 0, chunks |-> <<>>, base |-> lines]

(* The ProcessTerminal and the process streams it drives: stdin's raw mode   *)
(* and flowing state, how many times handleData is registered for "data",   *)
(* how many resize closures are registered for "resize", and whether each   *)
(* of the three fields is set.                                              *)
PtFresh ==
    [isTTY |-> TRUE, rawMode |-> FALSE, dataListeners |-> 0, resizeListeners |-> 0,
     resizeHandler |-> FALSE, onInputCallback |-> FALSE, onResizeCallback |-> FALSE,
     flowing |-> FALSE]

HideCursor == ESC \o "[?25l"
ShowCursor == ESC \o "[?25h"

(* ProcessTerminal.start(onInput, onResize) *)
PtStart(p) ==
    [p EXCEPT !.onInputCallback = TRUE,
              !.onResizeCallback = TRUE,
              !.rawMode = IF p.isTTY THEN TRUE ELSE @,
              !.dataListeners = @ + 1,
              !.resizeHandler = TRUE,
              !.resizeListeners = @ + 1,
              !.flowing = TRUE]

(* ProcessTerminal.stop(): off() removes one registration of the listener   *)
(* it is given, the closure in resizeHandler being the one start made last. *)
PtStop(p) ==
    [p EXCEPT !.rawMode = IF p.isTTY THEN FALSE ELSE @,
              !.dataListeners = Max(0, @ - 1),
              !.resizeListeners = IF p.resizeHandler THEN Max(0, @ - 1) ELSE @,
              !.flowing = FALSE,
              !.onInputCallback = FALSE,
              !.onResizeCallback = FALSE,
              !.resizeHandler = FALSE]

(* How many times the TUI's callback runs for one "data" event, one         *)
(* "resize" event: once per registered listener while the field is set.     *)
DataReaches(p) == IF p.onInputCallback THEN p.dataListeners ELSE 0
ResizeReaches(p) == IF p.onResizeCallback THEN p.resizeListeners ELSE 0

(* The components as their constructors leave them, with default options;  *)
(* a string is the sequence of its characters.                              *)
TextComponentNew ==
    [text |-> <<>>, paddingLeft |-> 0, paddingRight |-> 0, paddingTop |-> 0,
     paddingBottom |-> 0]

SingleLineInputNew ==
    [value |-> <<>>, cursorPosition |-> 0, scrollOffset |-> 0, prompt |-> <<">", " ">>]

TextEditorNew ==
    [lines |-> << <<>> >>, cursorLine |-> 0, cursorCol |-> 0, disableSubmit |-> FALSE]

MenuNew == [entries |-> <<>>, selectedIndex |-> 0]

WidgetInit ==
    /\ subject = "none"
    /\ textComponent = TextComponentNew
    /\ singleLineInput = SingleLineInputNew
    /\ textEditor = TextEditorNew
    /\ menu = MenuNew
    /\ callbacks = <<>>

(* After construction: no focus, no global handler, terminal not started. *)
SessionInit ==
    /\ focusedComponent = "undefined"
    /\ onGlobalInput = FALSE
    /\ pt = PtFresh
    /\ children = [k \in Containers |-> <<>>]
    /\ op = NoOp
    /\ batch = NoBatch(<<>>)
    /\ life = <<>>

----------------------------------------------------------------------------
(* Actions *)

(* After construction. The terminal holds whatever was there before: a      *)
(* blank row, or one row of earlier output.                                 *)
Init ==
    /\ oldBuffer = <<>>
    /\ isFirstRender = TRUE
    /\ renderRequested = FALSE
    /\ tickQueue = 0
    /\ rootLines \in Buffers
    /\ rows \in 1..MaxRows
    /\ display \in {[lines |-> <<Blank>>, cur |-> 1, saved |-> 1],
                    [lines |-> <<"$">>, cur |-> 1, saved |-> 1]}
    /\ writes = <<>>
    /\ cycle = NoCycle
    /\ lastFrame = <<>>
    /\ resized = FALSE
    /\ SessionInit
    /\ WidgetInit

(* The application calls tui.requestRender(). *)
RequestRender ==
    /\ ScheduleRender
    /\ writes' = <<>>
    /\ cycle' = NoCycle
    /\ UNCHANGED <<oldBuffer, isFirstRender, rootLines, rows, display, lastFrame, resized>>
    /\ UNCHANGED sessionVars
    /\ UNCHANGED widgetVars

(* Variant of ResizeFlag: handleResize leaves the flag as it is. *)
ResizeFlag_Unchanged == isFirstRender

(* The value handleResize assigns to isFirstRender. *)
ResizeFlag == TRUE

(* Variant of ResizeBuffer: handleResize keeps the previous buffer. *)
ResizeBuffer_Kept == oldBuffer

(* The value handleResize assigns to oldBuffer. *)
ResizeBuffer == <<>>

(* handleResize, with the terminal's new size in place. *)
HandleResizeBody ==
    /\ \E r \in 1..MaxRows : rows' = r
    /\ isFirstRender' = ResizeFlag
    /\ oldBuffer' = ResizeBuffer
    /\ ScheduleRender
    /\ resized' = TRUE
    /\ writes' = <<>>
    /\ cycle' = NoCycle
    /\ UNCHANGED <<rootLines, display, lastFrame>>

(* The terminal reports a resize: handleResize runs with the new size in place. *)
HandleResize ==
    /\ HandleResizeBody
    /\ UNCHANGED sessionVars
    /\ UNCHANGED widgetVars

MutateBody ==
    /\ \E b \in Buffers : b # rootLines /\ rootLines' = b
    /\ writes' = <<>>
    /\ cycle' = NoCycle
    /\ UNCHANGED <<oldBuffer, isFirstRender, renderRequested, tickQueue, rows, display,
                   lastFrame, resized>>

(* Component state changes: the root renders to other lines from now on. *)
Mutate ==
    /\ MutateBody
    /\ UNCHANGED sessionVars
    /\ UNCHANGED widgetVars

(* The callback given to process.nextTick: lines 98-101. *)
NextTickBody ==
    /\ tickQueue > 0
    /\ tickQueue' = tickQueue - 1
    /\ renderRequested' = FALSE
    /\ RenderToScreen
    /\ UNCHANGED <<rootLines, rows>>

(* The callback given to process.nextTick runs. *)
NextTick ==
    /\ NextTickBody
    /\ UNCHANGED sessionVars
    /\ UNCHANGED widgetVars

Next == RequestRender \/ HandleResize \/ Mutate \/ NextTick

Spec == Init /\ [][Next]_vars

----------------------------------------------------------------------------
(* Input routing and render scheduling: the TUI with a focused editor as    *)
(* the root's only content, driven by input chunks, resizes and the         *)
(* application.                                                             *)

InSeq(seq, x) == \E k \in 1..Len(seq) : seq[k] = x

(* Variant of HandleInputCalls: the focused component first, then the handler. *)
HandleInputCalls_ComponentFirst(answer) ==
    (IF HasHandleInput(focusedComponent) THEN <<"handleInput", "requestRender">> ELSE <<>>)
    \o (IF onGlobalInput THEN <<"onGlobalInput">> ELSE <<>>)

(* Variant of HandleInputCalls: requestRender whether or not the chunk was delivered. *)
HandleInputCalls_AlwaysRenders(answer) ==
    IF onGlobalInput /\ answer THEN <<"onGlobalInput", "requestRender">>
    ELSE (IF onGlobalInput THEN <<"onGlobalInput">> ELSE <<>>)
         \o (IF HasHandleInput(focusedComponent) THEN <<"handleInput">> ELSE <<>>)
         \o <<"requestRender">>

(* TUI.handleInput: the calls it makes for one chunk, in order; answer is   *)
(* what the global handler returns when it is called.                       *)
HandleInputCalls(answer) ==
    IF onGlobalInput /\ answer THEN <<"onGlobalInput">>
    ELSE (IF onGlobalInput THEN <<"onGlobalInput">> ELSE <<>>)
         \o (IF HasHandleInput(focusedComponent)
             THEN <<"handleInput", "requestRender">>
             ELSE <<>>)

InputInit ==
    /\ oldBuffer = <<>>
    /\ isFirstRender = TRUE
    /\ renderRequested = FALSE
    /\ tickQueue = 0
    /\ rootLines = <<>>
    /\ rows = MaxRows
    /\ display = [lines |-> <<Blank>>, cur |-> 1, saved |-> 1]
    /\ writes = <<>>
    /\ cycle = NoCycle
    /\ lastFrame = <<>>
    /\ resized = FALSE
    /\ SessionInit
    /\ WidgetInit

CountRequest(n) == [batch EXCEPT !.requests = Min(@ + n, MaxBatch)]

(* tui.getFocus() *)
GetFocus == focusedComponent

(* Variant of SetFocus: the focus change also asks for a render. *)
SetFocus_RequestsRender ==
    /\ \E c \in FocusTargets :
          /\ focusedComponent' = c
          /\ op' = [name |-> "setFocus", arg |-> c]
    /\ ScheduleRender
    /\ writes' = <<>>
    /\ cycle' = NoCycle
    /\ UNCHANGED <<oldBuffer, isFirstRender, rootLines, rows,
                   display, lastFrame, resized, onGlobalInput, pt, children, batch, life>>
    /\ UNCHANGED widgetVars

(* tui.setFocus(component) *)
SetFocus ==
    /\ \E c \in FocusTargets :
          /\ focusedComponent' = c
          /\ op' = [name |-> "setFocus", arg |-> c]
    /\ writes' = <<>>
    /\ cycle' = NoCycle
    /\ UNCHANGED <<oldBuffer, isFirstRender, renderRequested, tickQueue, rootLines, rows,
                   display, lastFrame, resized, onGlobalInput, pt, children, batch, life>>
    /\ UNCHANGED widgetVars

(* tui.setGlobalInputHandler(handler) *)
SetGlobalInputHandler ==
    /\ onGlobalInput' = TRUE
    /\ op' = [name |-> "setGlobalInputHandler"]
    /\ writes' = <<>>
    /\ cycle' = NoCycle
    /\ UNCHANGED <<oldBuffer, isFirstRender, renderRequested, tickQueue, rootLines, rows,
                   display, lastFrame, resized, focusedComponent, pt, children, batch, life>>
    /\ UNCHANGED widgetVars

(* The terminal delivers one chunk: TUI.handleInput(data). *)
HandleInputBody ==
    \E data \in Chunks, answer \in (IF onGlobalInput THEN BOOLEAN ELSE {FALSE}) :
        LET calls == HandleInputCalls(answer)
            delivered == InSeq(calls, "handleInput")
            requested == InSeq(calls, "requestRender")
        IN  /\ rootLines' = IF delivered THEN ComponentHandleInput(rootLines, data)
                                          ELSE rootLines
            /\ IF requested THEN ScheduleRender
                            ELSE UNCHANGED <<renderRequested, tickQueue>>
            /\ op' = [name |-> "handleInput", data |-> data, installed |-> onGlobalInput,
                      answer |-> answer, focus |-> focusedComponent, calls |-> calls,
                      before |-> rootLines, pending |-> renderRequested]
            /\ writes' = <<>>
            /\ cycle' = NoCycle
            /\ UNCHANGED <<oldBuffer, isFirstRender, rows, display, lastFrame, resized,
                           focusedComponent, onGlobalInput>>

InputChunk ==
    /\ HandleInputBody
    /\ UNCHANGED <<pt, children, batch, life>>
    /\ UNCHANGED widgetVars

InputRequestRender ==
    /\ ScheduleRender
    /\ writes' = <<>>
    /\ cycle' = NoCycle
    /\ op' = [name |-> "requestRender"]
    /\ UNCHANGED <<oldBuffer, isFirstRender, rootLines, rows, display, lastFrame, resized,
                   focusedComponent, onGlobalInput, pt, children, batch, life>>
    /\ UNCHANGED widgetVars

InputTick ==
    /\ NextTickBody
    /\ op' = [name |-> "tick"]
    /\ UNCHANGED <<focusedComponent, onGlobalInput, pt, children, batch, life>>
    /\ UNCHANGED widgetVars

InputNext ==
    \/ SetFocus
    \/ SetGlobalInputHandler
    \/ InputChunk
    \/ InputRequestRender
    \/ InputTick

InputSpec == InputInit /\ [][InputNext]_vars

----------------------------------------------------------------------------
(* Batches of render requests: the editor holds focus, and every request    *)
(* and delivered chunk since the last render cycle is counted.              *)

BatchInit ==
    /\ oldBuffer = <<>>
    /\ isFirstRender = TRUE
    /\ renderRequested = FALSE
    /\ tickQueue = 0
    /\ rootLines = <<>>
    /\ rows = MaxRows
    /\ display = [lines |-> <<Blank>>, cur |-> 1, saved |-> 1]
    /\ writes = <<>>
    /\ cycle = NoCycle
    /\ lastFrame = <<>>
    /\ resized = FALSE
    /\ focusedComponent = "editor"
    /\ onGlobalInput \in BOOLEAN
    /\ pt = PtFresh
    /\ children = [k \in Containers |-> <<>>]
    /\ op = NoOp
    /\ batch = NoBatch(<<>>)
    /\ life = <<>>
    /\ WidgetInit

BatchChunk ==
    /\ Len(batch.chunks) < MaxBatch
    /\ HandleInputBody
    /\ batch' = [CountRequest(IF InSeq(op'.calls, "requestRender") THEN 1 ELSE 0) EXCEPT
                    !.chunks = IF InSeq(op'.calls, "handleInput")
                               THEN Append(@, op'.data) ELSE @]
    /\ UNCHANGED <<pt, children, life>>
    /\ UNCHANGED widgetVars

BatchRequestRender ==
    /\ ScheduleRender
    /\ writes' = <<>>
    /\ cycle' = NoCycle
    /\ op' = [name |-> "requestRender"]
    /\ batch' = CountRequest(1)
    /\ UNCHANGED <<oldBuffer, isFirstRender, rootLines, rows, display, lastFrame, resized,
                   focusedComponent, onGlobalInput, pt, children, life>>
    /\ UNCHANGED widgetVars

BatchTick ==
    /\ NextTickBody
    /\ op' = [name |-> "tick", requests |-> batch.requests, chunks |-> batch.chunks,
              base |-> batch.base]
    /\ batch' = NoBatch(rootLines)
    /\ UNCHANGED <<focusedComponent, onGlobalInput, pt, children, life>>
    /\ UNCHANGED widgetVars

BatchNext ==
    \/ BatchChunk
    \/ BatchRequestRender
    \/ BatchTick

BatchSpec == BatchInit /\ [][BatchNext]_vars

----------------------------------------------------------------------------
(* One turn of the event loop holding input chunks and resize               *)
(* notifications in any order, then the deferred render. life lists the     *)
(* turn's events in arrival order: the chunks delivered to the editor and   *)
(* "resize".                                                                *)

TurnResizes == Len(SelectSeq(life, LAMBDA e : e = "resize"))

TurnChunk ==
    /\ Len(batch.chunks) < MaxBatch
    /\ HandleInputBody
    /\ batch' = [CountRequest(IF InSeq(op'.calls, "requestRender") THEN 1 ELSE 0) EXCEPT
                    !.chunks = IF InSeq(op'.calls, "handleInput")
                               THEN Append(@, op'.data) ELSE @]
    /\ life' = IF InSeq(op'.calls, "handleInput") THEN Append(life, op'.data) ELSE life
    /\ UNCHANGED <<pt, children>>
    /\ UNCHANGED widgetVars

TurnResize ==
    /\ TurnResizes < MaxBatch
    /\ HandleResizeBody
    /\ op' = [name |-> "resize", rows |-> rows']
    /\ batch' = CountRequest(1)
    /\ life' = Append(life, "resize")
    /\ UNCHANGED <<focusedComponent, onGlobalInput, pt, children>>
    /\ UNCHANGED widgetVars

TurnTick ==
    /\ NextTickBody
    /\ op' = [name |-> "tick", turn |-> life, chunks |-> batch.chunks,
              base |-> batch.base]
    /\ batch' = NoBatch(rootLines)
    /\ life' = <<>>
    /\ UNCHANGED <<focusedComponent, onGlobalInput, pt, children>>
    /\ UNCHANGED widgetVars

TurnNext ==
    \/ TurnChunk
    \/ TurnResize
    \/ TurnTick

TurnSpec == BatchInit /\ [][TurnNext]_vars

----------------------------------------------------------------------------
(* The session lifecycle: TUI.start and TUI.stop on a ProcessTerminal, the  *)
(* events of stdin and stdout, and the deferred render; the editor holds    *)
(* focus and no global handler is installed.                                *)

LifecycleInit ==
    /\ oldBuffer = <<>>
    /\ isFirstRender = TRUE
    /\ renderRequested = FALSE
    /\ tickQueue = 0
    /\ rootLines = <<>>
    /\ rows = MaxRows
    /\ display = [lines |-> <<Blank>>, cur |-> 1, saved |-> 1]
    /\ writes = <<>>
    /\ cycle = NoCycle
    /\ lastFrame = <<>>
    /\ resized = FALSE
    /\ focusedComponent = "editor"
    /\ onGlobalInput = FALSE
    /\ pt \in {PtFresh, [PtFresh EXCEPT !.isTTY = FALSE]}
    /\ children = [k \in Containers |-> <<>>]
    /\ op = NoOp
    /\ batch = NoBatch(<<>>)
    /\ life = <<>>
    /\ WidgetInit

(* tui.start() *)
TuiStart ==
    /\ Len(life) < MaxLifecycle
    /\ writes' = <<W(HideCursor)>>
    /\ pt' = PtStart(pt)
    /\ ScheduleRender
    /\ cycle' = NoCycle
    /\ life' = Append(life, "start")
    /\ op' = [name |-> "start", before |-> pt]
    /\ UNCHANGED <<oldBuffer, isFirstRender, rootLines, rows, display, lastFrame, resized,
                   focusedComponent, onGlobalInput, children, batch>>
    /\ UNCHANGED widgetVars

(* Variant of StopBuffer: stop forgets the frame of the session it ends. *)
StopBuffer_Discarded == <<>>

(* oldBuffer after stop(): the method assigns nothing to it. *)
StopBuffer == oldBuffer

(* tui.stop() *)
TuiStop ==
    /\ Len(life) < MaxLifecycle
    /\ writes' = <<W(ShowCursor)>>
    /\ pt' = PtStop(pt)
    /\ cycle' = NoCycle
    /\ life' = Append(life, "stop")
    /\ op' = [name |-> "stop", before |-> pt]
    /\ oldBuffer' = StopBuffer
    /\ UNCHANGED <<isFirstRender, renderRequested, tickQueue, rootLines, rows,
                   display, lastFrame, resized, focusedComponent, onGlobalInput, children,
                   batch>>
    /\ UNCHANGED widgetVars

(* stdin emits "data": every registered handleData runs, and each passes    *)
(* the chunk to TUI.handleInput while onInputCallback is set.               *)
StdinData ==
    /\ \E data \in Chunks :
          LET n == DataReaches(pt)
          IN  /\ rootLines' = ApplyAll(rootLines, [k \in 1..n |-> data])
              /\ IF n > 0 THEN ScheduleRender
                          ELSE UNCHANGED <<renderRequested, tickQueue>>
              /\ op' = [name |-> "data", reached |-> n]
    /\ writes' = <<>>
    /\ cycle' = NoCycle
    /\ UNCHANGED <<oldBuffer, isFirstRender, rows, display, lastFrame, resized,
                   focusedComponent, onGlobalInput, pt, children, batch, life>>
    /\ UNCHANGED widgetVars

(* stdout emits "resize": every registered closure runs, and each calls     *)
(* TUI.handleResize while onResizeCallback is set.                          *)
StdoutResize ==
    /\ IF ResizeReaches(pt) > 0
       THEN HandleResizeBody
       ELSE /\ \E r \in 1..MaxRows : rows' = r
            /\ writes' = <<>>
            /\ cycle' = NoCycle
            /\ UNCHANGED <<oldBuffer, isFirstRender, renderRequested, tickQueue, rootLines,
                           display, lastFrame, resized>>
    /\ op' = [name |-> "resize", reached |-> ResizeReaches(pt)]
    /\ UNCHANGED <<focusedComponent, onGlobalInput, pt, children, batch, life>>
    /\ UNCHANGED widgetVars

LifecycleTick ==
    /\ NextTickBody
    /\ op' = [name |-> "tick"]
    /\ UNCHANGED <<focusedComponent, onGlobalInput, pt, children, batch, life>>
    /\ UNCHANGED widgetVars

LifecycleNext ==
    \/ TuiStart
    \/ TuiStop
    \/ StdinData
    \/ StdoutResize
    \/ LifecycleTick

LifecycleSpec == LifecycleInit /\ [][LifecycleNext]_vars

----------------------------------------------------------------------------
(* Containers: addChild, removeChild, clear and render on two containers    *)
(* whose children are text components.                                      *)

Components == {"x", "y"}
Widths == 1..MaxWidth

(* The characters of each child's text. *)
ChildText(c) == IF c = "x" THEN <<"a", "b">> ELSE <<"c">>

RECURSIVE JoinChars(_)
JoinChars(chars) ==
    IF chars = <<>> THEN "" ELSE Head(chars) \o JoinChars(Tail(chars))

RECURSIVE WrapChars(_, _)
WrapChars(chars, width) ==
    IF Len(chars) <= width THEN <<JoinChars(chars)>>
    ELSE <<JoinChars(SubSeq(chars, 1, width))>>
         \o WrapChars(SubSeq(chars, width + 1, Len(chars)), width)

(* child.render(width): the child's text wrapped to the width. *)
ChildRender(c, width) == WrapChars(ChildText(c), width)

(* Variant of ContainerRender: every child is rendered at the widest width. *)
RECURSIVE ContainerRender_OwnWidth(_, _)
ContainerRender_OwnWidth(kids, width) ==
    IF kids = <<>> THEN <<>>
    ELSE ChildRender(Head(kids), MaxWidth) \o ContainerRender_OwnWidth(Tail(kids), width)

(* Container.render(width): the loop over this.children, pushing each       *)
(* child's lines.                                                           *)
RECURSIVE ContainerRender(_, _)
ContainerRender(kids, width) ==
    IF kids = <<>> THEN <<>>
    ELSE ChildRender(Head(kids), width) \o ContainerRender(Tail(kids), width)

(* Variant of IndexOf: only the first slot is compared. *)
IndexOf_FirstSlotOnly(kids, c) ==
    IF kids # <<>> /\ kids[1] = c THEN 0 ELSE -1

(* Array.prototype.indexOf: the 0-based index of the first element          *)
(* identical to c, or -1.                                                   *)
IndexOf(kids, c) ==
    IF \E i \in 1..Len(kids) : kids[i] = c
    THEN (CHOOSE i \in 1..Len(kids) :
             kids[i] = c /\ \A j \in 1..(i - 1) : kids[j] # c) - 1
    ELSE -1

(* Array.prototype.splice(index, 1) for a 0-based index of the array. *)
Splice(kids, index) ==
    SubSeq(kids, 1, index) \o SubSeq(kids, index + 2, Len(kids))

ContainerInit ==
    /\ oldBuffer = <<>>
    /\ isFirstRender = TRUE
    /\ renderRequested = FALSE
    /\ tickQueue = 0
    /\ rootLines = <<>>
    /\ rows = MaxRows
    /\ display = [lines |-> <<Blank>>, cur |-> 1, saved |-> 1]
    /\ writes = <<>>
    /\ cycle = NoCycle
    /\ lastFrame = <<>>
    /\ resized = FALSE
    /\ SessionInit
    /\ WidgetInit

(* container.addChild(component) *)
AddChild ==
    /\ \E k \in Containers, c \in Components :
          /\ Len(children[k]) < MaxChildren
          /\ children' = [children EXCEPT ![k] = Append(@, c)]
          /\ op' = [name |-> "addChild", container |-> k, arg |-> c,
                    before |-> children]
    /\ UNCHANGED <<renderVars, focusedComponent, onGlobalInput, pt, batch, life>>
    /\ UNCHANGED widgetVars

(* container.removeChild(component) *)
RemoveChild ==
    /\ \E k \in Containers, c \in Components :
          LET index == IndexOf(children[k], c)
          IN  /\ children' = IF index # -1
                             THEN [children EXCEPT ![k] = Splice(@, index)]
                             ELSE children
              /\ op' = [name |-> "removeChild", container |-> k, arg |-> c,
                        before |-> children]
    /\ UNCHANGED <<renderVars, focusedComponent, onGlobalInput, pt, batch, life>>
    /\ UNCHANGED widgetVars

(* container.clear() *)
Clear ==
    /\ \E k \in Containers :
          /\ children' = [children EXCEPT ![k] = <<>>]
          /\ op' = [name |-> "clear", container |-> k, before |-> children]
    /\ UNCHANGED <<renderVars, focusedComponent, onGlobalInput, pt, batch, life>>
    /\ UNCHANGED widgetVars

(* container.render(width) *)
Render ==
    /\ \E k \in Containers, width \in Widths :
          op' = [name |-> "render", container |-> k, width |-> width,
                 before |-> children,
                 result |-> ContainerRender(children[k], width)]
    /\ UNCHANGED <<renderVars, focusedComponent, onGlobalInput, pt, children, batch, life>>
    /\ UNCHANGED widgetVars

ContainerNext ==
    \/ AddChild
    \/ RemoveChild
    \/ Clear
    \/ Render

ContainerSpec == ContainerInit /\ [][ContainerNext]_vars

----------------------------------------------------------------------------
(* A terminal whose write can throw: the render cycle of a deferred render  *)
(* is cut short at the write that fails.                                    *)

(* Variant of FailedCycleBuffer: the candidate is kept although the cycle failed. *)
FailedCycleBuffer_Swapped(newBuffer) == newBuffer

(* oldBuffer after a cycle whose write threw: the assignment of line 155 is *)
(* not reached.                                                             *)
FailedCycleBuffer(newBuffer) == oldBuffer

(* The terminal.write calls of a cycle whose f-th write throws: the calls   *)
(* up to and including that one.                                            *)
FailedCycleWrites(out, f) == SubSeq(out, 1, f)

(* renderToScreen when the f-th write of the cycle throws: the data of the  *)
(* writes before it reached the terminal.                                   *)
RenderToScreenThrows(f) ==
    LET height == rows
        newBuffer == RootRender
        out == CycleWrites(newBuffer, height)
    IN  /\ f \in 1..Len(out)
        /\ writes' = FailedCycleWrites(out, f)
        /\ display' = FeedAll(display, SubSeq(out, 1, f - 1), rows)
        /\ oldBuffer' = FailedCycleBuffer(newBuffer)
        /\ cycle' = NoCycle
        /\ op' = [name |-> "tick", threw |-> TRUE, planned |-> out, failedAt |-> f,
                  old |-> oldBuffer, new |-> newBuffer]
        /\ UNCHANGED <<isFirstRender, lastFrame, resized>>

FailureInit ==
    /\ oldBuffer = <<>>
    /\ isFirstRender = TRUE
    /\ renderRequested = FALSE
    /\ tickQueue = 0
    /\ rootLines = <<>>
    /\ rows = MaxRows
    /\ display = [lines |-> <<Blank>>, cur |-> 1, saved |-> 1]
    /\ writes = <<>>
    /\ cycle = NoCycle
    /\ lastFrame = <<>>
    /\ resized = FALSE
    /\ SessionInit
    /\ WidgetInit

(* The last step was a render cycle in which a terminal write threw: the    *)
(* exception left the process.nextTick callback uncaught and the process    *)
(* has ended.                                                               *)
CycleThrew == op.name = "tick" /\ op.threw

FailureRequestRender ==
    /\ ~CycleThrew
    /\ InputRequestRender

(* Component state changes between two render requests. *)
FailureMutate ==
    /\ ~CycleThrew
    /\ ~renderRequested
    /\ MutateBody
    /\ op' = [name |-> "mutate", threw |-> FALSE]
    /\ UNCHANGED <<focusedComponent, onGlobalInput, pt, children, batch, life>>
    /\ UNCHANGED widgetVars

(* The deferred callback runs and every write succeeds. *)
FailureTick ==
    /\ ~CycleThrew
    /\ NextTickBody
    /\ op' = [name |-> "tick", threw |-> FALSE]
    /\ UNCHANGED <<focusedComponent, onGlobalInput, pt, children, batch, life>>
    /\ UNCHANGED widgetVars

(* Variant of FlagAfterThrow: the flag is cleared only when the cycle completed. *)
FlagAfterThrow_StillSet == TRUE

(* renderRequested after a deferred callback whose cycle threw: line 99     *)
(* cleared it before renderToScreen was entered.                            *)
FlagAfterThrow == FALSE

(* The deferred callback runs and one write throws: the exception leaves    *)
(* renderToScreen and the callback.                                         *)
FailureTickThrows ==
    /\ ~CycleThrew
    /\ tickQueue > 0
    /\ tickQueue' = tickQueue - 1
    /\ renderRequested' = FlagAfterThrow
    /\ \E f \in 1..(2 * MaxLines + 3) : RenderToScreenThrows(f)
    /\ UNCHANGED <<rootLines, rows, focusedComponent, onGlobalInput, pt, children, batch,
                   life>>
    /\ UNCHANGED widgetVars

FailureNext ==
    \/ FailureRequestRender
    \/ FailureMutate
    \/ FailureTick
    \/ FailureTickThrows

FailureSpec == FailureInit /\ [][FailureNext]_vars

----------------------------------------------------------------------------
(* The render scheduler under a fair event loop: the application changes    *)
(* state and requests renders, every deferred callback is run, and a write  *)
(* may throw inside a cycle. Here the host catches the exception that       *)
(* leaves the callback (an uncaughtException handler), so the session goes  *)
(* on; life counts the cycles that threw.                                   *)

(* The frames the root renders to in these runs. *)
SchedFrames == {<<>>, <<"a">>, <<"b">>, <<"a", "b">>}

(* The application changes component state and calls requestRender. *)
SchedUpdate ==
    /\ \E b \in SchedFrames : rootLines' = b
    /\ ScheduleRender
    /\ writes' = <<>>
    /\ cycle' = NoCycle
    /\ op' = [name |-> "update", threw |-> FALSE]
    /\ UNCHANGED <<oldBuffer, isFirstRender, rows, display, lastFrame, resized,
                   focusedComponent, onGlobalInput, pt, children, batch, life>>
    /\ UNCHANGED widgetVars

SchedTick ==
    /\ NextTickBody
    /\ op' = [name |-> "tick", threw |-> FALSE]
    /\ UNCHANGED <<focusedComponent, onGlobalInput, pt, children, batch, life>>
    /\ UNCHANGED widgetVars

SchedTickThrows ==
    /\ Len(life) < MaxLifecycle
    /\ tickQueue > 0
    /\ tickQueue' = tickQueue - 1
    /\ renderRequested' = FlagAfterThrow
    /\ \E f \in 1..(2 * MaxLines + 3) : RenderToScreenThrows(f)
    /\ life' = Append(life, "threw")
    /\ UNCHANGED <<rootLines, rows, focusedComponent, onGlobalInput, pt, children, batch>>
    /\ UNCHANGED widgetVars

SchedNext ==
    \/ SchedUpdate
    \/ SchedTick
    \/ SchedTickThrows

(* A deferred callback is taken off the nextTick queue and run, whatever   *)
(* its cycle does.                                                          *)
RunCallback ==
    /\ tickQueue > 0
    /\ tickQueue' = tickQueue - 1

(* process.nextTick runs every callback it was given. *)
SchedulerSpec ==
    /\ FailureInit
    /\ [][SchedNext]_vars
    /\ WF_tickQueue(RunCallback)

----------------------------------------------------------------------------
(* requestRender called while a cycle is executing: a component's render,   *)
(* or a callback it invokes, changes state and asks for another render.     *)

(* Variant of ReentrantSchedule: the callback clears the flag after rendering. *)
ReentrantSchedule_FlagClearedLast == [flag |-> FALSE, queued |-> 0]

(* requestRender inside renderToScreen: line 99 has cleared the flag, so    *)
(* the call sets it and defers one more callback.                           *)
ReentrantSchedule == [flag |-> TRUE, queued |-> 1]

ReentrantTick ==
    /\ tickQueue > 0
    /\ \E reentrant \in BOOLEAN :
          /\ IF reentrant
             THEN /\ renderRequested' = ReentrantSchedule.flag
                  /\ tickQueue' = tickQueue - 1 + ReentrantSchedule.queued
                  /\ \E b \in SchedFrames : b # rootLines /\ rootLines' = b
             ELSE /\ renderRequested' = FALSE
                  /\ tickQueue' = tickQueue - 1
                  /\ rootLines' = rootLines
          /\ op' = [name |-> "tick", threw |-> FALSE, reentrant |-> reentrant,
                    state |-> rootLines]
    /\ RenderToScreen
    /\ UNCHANGED <<rows, focusedComponent, onGlobalInput, pt, children, batch, life>>
    /\ UNCHANGED widgetVars

ReentrantNext ==
    \/ SchedUpdate
    \/ ReentrantTick

ReentrantSpec == FailureInit /\ [][ReentrantNext]_vars

----------------------------------------------------------------------------
(* utils.ts: getVisibleLength, wrapText, wordWrapText. A string is the      *)
(* sequence of its characters, indexed from 0 with At.                      *)

Digits == {"0", "1", "2", "3", "4", "5", "6", "7", "8", "9"}
ResetCode == <<ESC, "[", "0", "m">>

(* str.substring(from, to) for 0 <= from *)
Substring(str, from, to) == SubSeq(str, from + 1, Min(to, Len(str)))

(* text.split("\n") *)
RECURSIVE SplitLines(_, _)
SplitLines(text, current) ==
    IF text = <<>> THEN <<current>>
    ELSE IF Head(text) = LF THEN <<current>> \o SplitLines(Tail(text), <<>>)
    ELSE SplitLines(Tail(text), Append(current, Head(text)))

(* The index after the longest run of [0-9;] starting at j. *)
RECURSIVE SkipParams(_, _)
SkipParams(str, j) ==
    IF j < Len(str) /\ At(str, j) \in Digits \cup {";"} THEN SkipParams(str, j + 1) ELSE j

(* str.replace(/\x1b\[[0-9;]*m/g, "").length, counted from index i on *)
RECURSIVE VisibleFrom(_, _)
VisibleFrom(str, i) ==
    IF i >= Len(str) THEN 0
    ELSE IF At(str, i) = ESC /\ i + 1 < Len(str) /\ At(str, i + 1) = "["
              /\ SkipParams(str, i + 2) < Len(str)
              /\ At(str, SkipParams(str, i + 2)) = "m"
         THEN VisibleFrom(str, SkipParams(str, i + 2) + 1)
    ELSE 1 + VisibleFrom(str, i + 1)

GetVisibleLength(str) == VisibleFrom(str, 0)

(* The inner while loop of wrapText and wordWrapText: the first index from  *)
(* j on that holds "m", or the length.                                      *)
RECURSIVE FindM(_, _)
FindM(line, j) ==
    IF j < Len(line) /\ At(line, j) # "m" THEN FindM(line, j + 1) ELSE j

ActiveCodes(active, ansiCode) == IF ansiCode = ResetCode THEN <<>> ELSE active \o ansiCode

(* Variant of WrapLoop: a line is pushed when it is longer than the width. *)
RECURSIVE WrapLoop_BreaksLate(_, _, _, _, _, _, _)
WrapLoop_BreaksLate(line, width, i, currentLine, currentVisibleLength, activeAnsiCodes, lines) ==
    IF i >= Len(line)
    THEN IF Len(currentLine) > 0 \/ Len(lines) = 0 THEN Append(lines, currentLine) ELSE lines
    ELSE IF currentVisibleLength > width
         THEN WrapLoop_BreaksLate(line, width, i + 1, Append(activeAnsiCodes, At(line, i)), 1,
                       activeAnsiCodes, Append(lines, currentLine))
    ELSE WrapLoop_BreaksLate(line, width, i + 1, Append(currentLine, At(line, i)),
                  currentVisibleLength + 1, activeAnsiCodes, lines)

(* wrapText, the character loop over one line that needs wrapping; lines is *)
(* the result so far.                                                       *)
RECURSIVE WrapLoop(_, _, _, _, _, _, _)
WrapLoop(line, width, i, currentLine, currentVisibleLength, activeAnsiCodes, lines) ==
    IF i >= Len(line)
    THEN IF Len(currentLine) > 0 \/ Len(lines) = 0 THEN Append(lines, currentLine) ELSE lines
    ELSE IF At(line, i) = ESC /\ i + 1 < Len(line) /\ At(line, i + 1) = "["
              /\ FindM(line, i + 2) < Len(line)
         THEN LET j == FindM(line, i + 2)
                  ansiCode == Substring(line, i, j + 1)
              IN  WrapLoop(line, width, j + 1, currentLine \o ansiCode, currentVisibleLength,
                           ActiveCodes(activeAnsiCodes, ansiCode), lines)
    ELSE IF currentVisibleLength >= width
         THEN WrapLoop(line, width, i + 1, Append(activeAnsiCodes, At(line, i)), 1,
                       activeAnsiCodes, Append(lines, currentLine))
    ELSE WrapLoop(line, width, i + 1, Append(currentLine, At(line, i)),
                  currentVisibleLength + 1, activeAnsiCodes, lines)

(* wrapText, the loop over the input lines *)
RECURSIVE WrapInputLines(_, _, _)
WrapInputLines(inputLines, width, lines) ==
    IF inputLines = <<>> THEN lines
    ELSE LET line == Head(inputLines)
         IN  WrapInputLines(Tail(inputLines), width,
                 IF GetVisibleLength(line) <= width THEN Append(lines, line)
                 ELSE WrapLoop(line, width, 0, <<>>, 0, <<>>, lines))

WrapText(text, width) ==
    IF width <= 0 THEN <<>> ELSE WrapInputLines(SplitLines(text, <<>>), width, <<>>)

(* str.trimEnd() *)
RECURSIVE TrimEnd(_)
TrimEnd(str) ==
    IF str # <<>> /\ str[Len(str)] \in {" ", LF, CR, "\t"}
    THEN TrimEnd(SubSeq(str, 1, Len(str) - 1)) ELSE str

(* str.trimStart() *)
RECURSIVE TrimStart(_)
TrimStart(str) ==
    IF str # <<>> /\ Head(str) \in {" ", LF, CR, "\t"} THEN TrimStart(Tail(str)) ELSE str

(* wordWrapText, the character loop that splits one line into words *)
RECURSIVE WordsLoop(_, _, _, _, _, _)
WordsLoop(line, i, currentWord, currentVisibleLength, activeAnsiCodes, words) ==
    IF i >= Len(line)
    THEN IF Len(currentWord) > 0
         THEN Append(words, [text |-> currentWord, visibleLength |-> currentVisibleLength])
         ELSE words
    ELSE IF At(line, i) = ESC /\ i + 1 < Len(line) /\ At(line, i + 1) = "["
              /\ FindM(line, i + 2) < Len(line)
         THEN LET j == FindM(line, i + 2)
                  ansiCode == Substring(line, i, j + 1)
              IN  WordsLoop(line, j + 1, currentWord \o ansiCode, currentVisibleLength,
                            ActiveCodes(activeAnsiCodes, ansiCode), words)
    ELSE IF At(line, i) = " "
         THEN IF Len(currentWord) > 0
              THEN WordsLoop(line, i + 1, activeAnsiCodes, 0, activeAnsiCodes,
                             Append(words, [text |-> Append(currentWord, " "),
                                            visibleLength |-> currentVisibleLength + 1]))
              ELSE WordsLoop(line, i + 1, currentWord, currentVisibleLength, activeAnsiCodes,
                             Append(words, [text |-> <<" ">>, visibleLength |-> 1]))
    ELSE WordsLoop(line, i + 1, Append(currentWord, At(line, i)), currentVisibleLength + 1,
                   activeAnsiCodes, words)

(* The active codes after the matches of /\x1b\[[0-9;]*m/g in str from i on *)
RECURSIVE ActiveAfter(_, _, _)
ActiveAfter(active, str, i) ==
    IF i >= Len(str) THEN active
    ELSE IF At(str, i) = ESC /\ i + 1 < Len(str) /\ At(str, i + 1) = "["
              /\ SkipParams(str, i + 2) < Len(str)
              /\ At(str, SkipParams(str, i + 2)) = "m"
         THEN LET j == SkipParams(str, i + 2)
              IN  ActiveAfter(ActiveCodes(active, Substring(str, i, j + 1)), str, j + 1)
    ELSE ActiveAfter(active, str, i + 1)

(* wordWrapText, the loop that places the words of one line; k is the       *)
(* 1-based position of the next word.                                       *)
RECURSIVE PlaceWords(_, _, _, _, _, _, _)
PlaceWords(words, width, k, currentLine, currentLineVisibleLength, activeAnsiCodes, lines) ==
    IF k > Len(words)
    THEN IF Len(currentLine) > 0 THEN Append(lines, TrimEnd(currentLine)) ELSE lines
    ELSE LET word == words[k]
         IN  IF word.visibleLength > width
             THEN LET wrappedWord == WrapText(word.text, width)
                      pushed == IF Len(currentLine) > 0 THEN Append(lines, currentLine)
                                ELSE lines
                      last == wrappedWord[Len(wrappedWord)]
                  IN  PlaceWords(words, width, k + 1, last, GetVisibleLength(last),
                                 activeAnsiCodes,
                                 pushed \o SubSeq(wrappedWord, 1, Len(wrappedWord) - 1))
             ELSE IF currentLineVisibleLength + word.visibleLength <= width
             THEN PlaceWords(words, width, k + 1, currentLine \o word.text,
                             currentLineVisibleLength + word.visibleLength,
                             ActiveAfter(activeAnsiCodes, word.text, 0), lines)
             ELSE PlaceWords(words, width, k + 1, activeAnsiCodes \o word.text,
                             word.visibleLength, activeAnsiCodes,
                             IF Len(currentLine) > 0
                             THEN Append(lines, TrimEnd(currentLine)) ELSE lines)

(* wordWrapText, the loop over the input lines *)
RECURSIVE WordWrapInputLines(_, _, _)
WordWrapInputLines(inputLines, width, lines) ==
    IF inputLines = <<>> THEN lines
    ELSE LET line == Head(inputLines)
         IN  WordWrapInputLines(Tail(inputLines), width,
                 IF GetVisibleLength(line) <= width THEN Append(lines, line)
                 ELSE PlaceWords(WordsLoop(line, 0, <<>>, 0, <<>>, <<>>), width, 1,
                                 <<>>, 0, <<>>, lines))

WordWrapText(text, width) ==
    IF width <= 0 THEN <<>> ELSE WordWrapInputLines(SplitLines(text, <<>>), width, <<>>)

(* The texts given to the two functions, and the widths. *)
TextChars == {"a", "b", " ", LF}

RECURSIVE StringsUpTo(_, _)
StringsUpTo(chars, n) ==
    IF n = 0 THEN {<<>>}
    ELSE StringsUpTo(chars, n - 1)
         \cup {Append(str, c) : str \in StringsUpTo(chars, n - 1), c \in chars}

WrapWidths == (-1)..(MaxWidth + 1)

WrapInit ==
    /\ oldBuffer = <<>>
    /\ isFirstRender = TRUE
    /\ renderRequested = FALSE
    /\ tickQueue = 0
    /\ rootLines = <<>>
    /\ rows = MaxRows
    /\ display = [lines |-> <<Blank>>, cur |-> 1, saved |-> 1]
    /\ writes = <<>>
    /\ cycle = NoCycle
    /\ lastFrame = <<>>
    /\ resized = FALSE
    /\ focusedComponent = "undefined"
    /\ onGlobalInput = FALSE
    /\ pt = PtFresh
    /\ children = [k \in Containers |-> <<>>]
    /\ \E text \in StringsUpTo(TextChars, MaxText), width \in WrapWidths :
          op = [name |-> "arguments", text |-> text, width |-> width]
    /\ batch = NoBatch(<<>>)
    /\ life = <<>>
    /\ WidgetInit

(* wrapText(text, width) is called. *)
CallWrapText ==
    /\ op.name = "arguments"
    /\ op' = [name |-> "wrapText", text |-> op.text, width |-> op.width,
              result |-> WrapText(op.text, op.width)]
    /\ UNCHANGED <<renderVars, focusedComponent, onGlobalInput, pt, children, batch, life,
                   widgetVars>>

(* wordWrapText(text, width) is called. *)
CallWordWrapText ==
    /\ op.name = "arguments"
    /\ op' = [name |-> "wordWrapText", text |-> op.text, width |-> op.width,
              result |-> WordWrapText(op.text, op.width)]
    /\ UNCHANGED <<renderVars, focusedComponent, onGlobalInput, pt, children, batch, life,
                   widgetVars>>

WrapNext ==
    \/ CallWrapText
    \/ CallWordWrapText

WrapSpec == WrapInit /\ [][WrapNext]_vars

----------------------------------------------------------------------------
(* The components: TextComponent, Menu, SingleLineInput, TextEditor and a   *)
(* Container holding them.  A render is a record [state, outcome, lines]:   *)
(* the component after the call, whether the call returned, threw or never  *)
(* returns, and the lines returned.                                         *)

RECURSIVE Repeat(_, _)
Repeat(ch, n) == IF n <= 0 THEN <<>> ELSE <<ch>> \o Repeat(ch, n - 1)

Returned(state, lines) == [state |-> state, outcome |-> "returned", lines |-> lines]
Threw(state) == [state |-> state, outcome |-> "threw", lines |-> <<>>]
Hangs(state) == [state |-> state, outcome |-> "hangs", lines |-> <<>>]

(* chalk.<style>(str) with colours enabled: the opening code, the string,   *)
(* the closing code.                                                        *)
Sgr(params) == <<ESC, "[">> \o params \o <<"m">>
Chalk(open, close, str) == Sgr(open) \o str \o Sgr(close)
ChalkGray(str) == Chalk(<<"9", "0">>, <<"3", "9">>, str)
ChalkBold(str) == Chalk(<<"1">>, <<"2", "2">>, str)
ChalkCyan(str) == Chalk(<<"3", "6">>, <<"3", "9">>, str)
ChalkGreen(str) == Chalk(<<"3", "2">>, <<"3", "9">>, str)
ChalkYellow(str) == Chalk(<<"3", "3">>, <<"3", "9">>, str)

ReverseVideo(str) == <<ESC, "[", "7", "m">> \o str \o ResetCode

PadLine(leftPad, line, rightPad) == leftPad \o line \o rightPad

(* TextComponent.render(width) *)
TextComponentRender(t, width) ==
    LET availableWidth == Max(1, width - t.paddingLeft - t.paddingRight)
        wrappedLines == WordWrapText(t.text, availableWidth)
        leftPad == Repeat(" ", t.paddingLeft)
        rightPad == Repeat(" ", t.paddingRight)
    IN  Returned(t,
            [i \in 1..t.paddingTop |-> <<>>]
            \o [k \in 1..Len(wrappedLines) |-> PadLine(leftPad, wrappedLines[k], rightPad)]
            \o [i \in 1..t.paddingBottom |-> <<>>])

(* Variant of AdjustScroll: the offset follows the cursor on every call. *)
AdjustScroll_AlwaysShifts(s, availableWidth) ==
    IF s.cursorPosition > s.scrollOffset THEN s.scrollOffset + 1 ELSE s.cursorPosition

(* SingleLineInput.render, the adjustment of this.scrollOffset that keeps   *)
(* the cursor visible.                                                      *)
AdjustScroll(s, availableWidth) ==
    IF s.cursorPosition < s.scrollOffset THEN s.cursorPosition
    ELSE IF s.cursorPosition >= s.scrollOffset + availableWidth
         THEN s.cursorPosition - availableWidth + 1
    ELSE s.scrollOffset

(* SingleLineInput.render(width) *)
SingleLineInputRender(s, width) ==
    LET prompt == s.prompt
        promptLen == GetVisibleLength(prompt)
        availableWidth == Max(1, width - promptLen)
        scrollOffset == AdjustScroll(s, availableWidth)
        visibleValue == Substring(s.value, scrollOffset, scrollOffset + availableWidth)
        cursorInVisible == s.cursorPosition - scrollOffset
        line == prompt \o Substring(visibleValue, 0, cursorInVisible)
                \o (IF cursorInVisible < Len(visibleValue)
                    THEN ReverseVideo(<<At(visibleValue, cursorInVisible)>>)
                         \o Substring(visibleValue, cursorInVisible + 1, Len(visibleValue))
                    ELSE ReverseVideo(<<" ">>))
    IN  Returned([s EXCEPT !.scrollOffset = scrollOffset], <<line>>)

(* Keys.  A control character is written as one element; every other       *)
(* element of a string stands for a character in " ".."~".                  *)
DEL == "^?"
BS == "^H"
CtrlA == "^A"
CtrlE == "^E"
CtrlK == "^K"
CtrlU == "^U"
TAB == "\t"
ControlChars == {ESC, CR, LF, TAB, DEL, BS, CtrlA, CtrlE, CtrlK, CtrlU}
KeyUp == <<ESC, "[", "A">>
KeyDown == <<ESC, "[", "B">>
KeyRight == <<ESC, "[", "C">>
KeyLeft == <<ESC, "[", "D">>
KeyHome == <<ESC, "[", "H">>
KeyEnd == <<ESC, "[", "F">>
KeyDelete == <<ESC, "[", "3", "~">>

Call(name, arg) == [name |-> name, arg |-> arg]
Handled(state, calls) == [state |-> state, calls |-> calls]

(* Variant of SingleLineInputSetValue: the cursor is not clamped. *)
SingleLineInputSetValue_NoClamp(s, value) ==
    Handled([s EXCEPT !.value = value], <<Call("onChange", value)>>)

(* singleLineInput.setValue(value) *)
SingleLineInputSetValue(s, value) ==
    Handled([s EXCEPT !.value = value,
                      !.cursorPosition = Min(s.cursorPosition, Len(value))],
            <<Call("onChange", value)>>)

(* singleLineInput.clear() *)
SingleLineInputClear(s) ==
    Handled([s EXCEPT !.value = <<>>, !.cursorPosition = 0, !.scrollOffset = 0],
            <<Call("onChange", <<>>)>>)

(* SingleLineInput.handleInput(data) *)
SingleLineInputHandleInput(s, data) ==
    IF data = <<CR>> \/ data = <<LF>> THEN Handled(s, <<Call("onSubmit", s.value)>>)
    ELSE IF data = <<DEL>> \/ data = <<BS>> THEN
        IF s.cursorPosition > 0
        THEN LET value == Substring(s.value, 0, s.cursorPosition - 1)
                          \o Substring(s.value, s.cursorPosition, Len(s.value))
             IN  Handled([s EXCEPT !.value = value,
                                   !.cursorPosition = s.cursorPosition - 1],
                         <<Call("onChange", value)>>)
        ELSE Handled(s, <<>>)
    ELSE IF data = KeyRight THEN
        Handled(IF s.cursorPosition < Len(s.value)
                THEN [s EXCEPT !.cursorPosition = s.cursorPosition + 1] ELSE s, <<>>)
    ELSE IF data = KeyLeft THEN
        Handled(IF s.cursorPosition > 0
                THEN [s EXCEPT !.cursorPosition = s.cursorPosition - 1] ELSE s, <<>>)
    ELSE IF data = KeyHome \/ data = <<CtrlA>> THEN
        Handled([s EXCEPT !.cursorPosition = 0], <<>>)
    ELSE IF data = KeyEnd \/ data = <<CtrlE>> THEN
        Handled([s EXCEPT !.cursorPosition = Len(s.value)], <<>>)
    ELSE IF data = KeyDelete THEN
        IF s.cursorPosition < Len(s.value)
        THEN LET value == Substring(s.value, 0, s.cursorPosition)
                          \o Substring(s.value, s.cursorPosition + 1, Len(s.value))
             IN  Handled([s EXCEPT !.value = value], <<Call("onChange", value)>>)
        ELSE Handled(s, <<>>)
    ELSE IF data = <<CtrlU>> THEN
        Handled([s EXCEPT !.value = <<>>, !.cursorPosition = 0, !.scrollOffset = 0],
                <<Call("onChange", <<>>)>>)
    ELSE IF Len(data) = 1 /\ data[1] \notin ControlChars THEN
        LET value == Substring(s.value, 0, s.cursorPosition) \o data
                     \o Substring(s.value, s.cursorPosition, Len(s.value))
        IN  Handled([s EXCEPT !.value = value,
                              !.cursorPosition = s.cursorPosition + 1],
                    <<Call("onChange", value)>>)
    ELSE Handled(s, <<>>)

(* The box drawing characters and the other non-ASCII characters the        *)
(* components print; each is one character of a string.                     *)
TopLeftChar == "U+256D"
TopRightChar == "U+256E"
BottomLeftChar == "U+2570"
BottomRightChar == "U+256F"
HorizontalChar == "U+2500"
VerticalChar == "U+2502"
ArrowUpChar == "U+2191"
ArrowDownChar == "U+2193"
ArrowRightChar == "U+2192"
CheckChar == "U+2713"
CrossChar == "U+2717"

RECURSIVE RepeatStr(_, _)
RepeatStr(str, n) == IF n <= 0 THEN <<>> ELSE str \o RepeatStr(str, n - 1)

(* lines.join("\n") *)
RECURSIVE JoinLines(_)
JoinLines(lines) ==
    IF lines = <<>> THEN <<>>
    ELSE IF Len(lines) = 1 THEN lines[1]
    ELSE lines[1] \o <<LF>> \o JoinLines(Tail(lines))

(* TextEditor.getText() *)
EditorGetText(e) == JoinLines(e.lines)

EditorCurrentLine(e) == At(e.lines, e.cursorLine)

(* TextEditor.layoutText, the chunks of a line longer than maxLineLength,   *)
(* for maxLineLength >= 1.                                                  *)
RECURSIVE LayoutChunks(_, _, _)
LayoutChunks(prefixedLine, pos, maxLineLength) ==
    IF pos >= Len(prefixedLine) THEN <<>>
    ELSE <<Substring(prefixedLine, pos, pos + maxLineLength)>>
         \o LayoutChunks(prefixedLine, pos + maxLineLength, maxLineLength)

NoCursor == -1

(* TextEditor.layoutText, the layout lines of logical line i (0-based);     *)
(* cursorPos is NoCursor where hasCursor is false.                          *)
LayoutLine(e, i, contentWidth) ==
    LET line == At(e.lines, i)
        isCurrentLine == i = e.cursorLine
        prefix == IF i = 0 THEN <<">", " ">> ELSE <<" ", " ">>
        prefixedLine == prefix \o line
        maxLineLength == contentWidth
        cursorPos == Len(prefix) + e.cursorCol
        chunks == LayoutChunks(prefixedLine, 0, maxLineLength)
    IN  IF Len(prefixedLine) <= maxLineLength
        THEN << [text |-> prefixedLine,
                 cursorPos |-> IF isCurrentLine THEN cursorPos ELSE NoCursor] >>
        ELSE [chunkIndex \in 1..Len(chunks) |->
                LET chunkStart == (chunkIndex - 1) * maxLineLength
                    chunkEnd == chunkStart + Len(chunks[chunkIndex])
                IN  [text |-> chunks[chunkIndex],
                     cursorPos |-> IF isCurrentLine /\ cursorPos >= chunkStart
                                      /\ cursorPos < chunkEnd
                                   THEN cursorPos - chunkStart ELSE NoCursor]]

RECURSIVE LayoutLines(_, _, _)
LayoutLines(e, i, contentWidth) ==
    IF i >= Len(e.lines) THEN <<>>
    ELSE LayoutLine(e, i, contentWidth) \o LayoutLines(e, i + 1, contentWidth)

EditorIsEmpty(e) == Len(e.lines) = 0 \/ (Len(e.lines) = 1 /\ e.lines[1] = <<>>)

(* TextEditor.layoutText(contentWidth), where it returns *)
LayoutText(e, contentWidth) ==
    IF EditorIsEmpty(e) THEN << [text |-> <<">", " ">>, cursorPos |-> 2] >>
    ELSE LayoutLines(e, 0, contentWidth)

(* The chunk loop of layoutText makes no progress when maxLineLength <= 0:  *)
(* pos never reaches prefixedLine.length, which is at least 2.              *)
LayoutNeverReturns(e, contentWidth) == ~EditorIsEmpty(e) /\ contentWidth <= 0

(* TextEditor.render, the line printed for one layout line *)
EditorBoxLine(layoutLine, contentWidth) ==
    LET text == layoutLine.text
        hasCursor == layoutLine.cursorPos # NoCursor
        before == Substring(text, 0, layoutLine.cursorPos)
        after == Substring(text, layoutLine.cursorPos, Len(text))
        atEnd == hasCursor /\ after = <<>>
        displayText ==
            IF ~hasCursor THEN text
            ELSE IF after # <<>>
                 THEN before \o ReverseVideo(<<after[1]>>) \o Tail(after)
            ELSE before \o ReverseVideo(<<" ">>)
        visibleLength == IF atEnd THEN Len(text) + 1 ELSE Len(text)
        padding == Repeat(" ", Max(0, contentWidth - visibleLength))
    IN  ChalkGray(<<VerticalChar>>) \o <<" ">> \o displayText \o padding \o <<" ">>
        \o ChalkGray(<<VerticalChar>>)

(* TextEditor.render(width): String.prototype.repeat throws a RangeError    *)
(* for a negative count.                                                    *)
TextEditorRender(e, width) ==
    LET boxWidth == width - 1
        contentWidth == boxWidth - 4
        layoutLines == LayoutText(e, contentWidth)
        horizontal == ChalkGray(<<HorizontalChar>>)
    IN  IF LayoutNeverReturns(e, contentWidth) THEN Hangs(e)
        ELSE IF boxWidth - 2 < 0 THEN Threw(e)
        ELSE Returned(e,
                <<ChalkGray(<<TopLeftChar>>) \o RepeatStr(horizontal, boxWidth - 2)
                  \o ChalkGray(<<TopRightChar>>)>>
                \o [k \in 1..Len(layoutLines) |-> EditorBoxLine(layoutLines[k], contentWidth)]
                \o <<ChalkGray(<<BottomLeftChar>>) \o RepeatStr(horizontal, boxWidth - 2)
                     \o ChalkGray(<<BottomRightChar>>)>>)

SetLine(e, i, line) == [e EXCEPT !.lines[i + 1] = line]

(* lines.splice(i, 0, line) and lines.splice(i, 1) *)
InsertLineAt(lines, i, line) == SubSeq(lines, 1, i) \o <<line>> \o SubSeq(lines, i + 1, Len(lines))
RemoveLineAt(lines, i) == SubSeq(lines, 1, i) \o SubSeq(lines, i + 2, Len(lines))

(* TextEditor.insertCharacter(char) *)
InsertCharacter(e, char) ==
    LET line == EditorCurrentLine(e)
        before == Substring(line, 0, e.cursorCol)
        after == Substring(line, e.cursorCol, Len(line))
        next == [SetLine(e, e.cursorLine, before \o char \o after)
                    EXCEPT !.cursorCol = e.cursorCol + Len(char)]
    IN  Handled(next, <<Call("onChange", EditorGetText(next))>>)

(* handlePaste, the loop inserting the characters of a single pasted line *)
RECURSIVE InsertEach(_, _, _)
InsertEach(e, text, calls) ==
    IF text = <<>> THEN Handled(e, calls)
    ELSE LET h == InsertCharacter(e, <<Head(text)>>)
         IN  InsertEach(h.state, Tail(text), calls \o h.calls)

(* replace(/\r\n/g, "\n").replace(/\r/g, "\n") *)
RECURSIVE NormalizeNewlines(_)
NormalizeNewlines(text) ==
    IF text = <<>> THEN <<>>
    ELSE IF Head(text) = CR
         THEN <<LF>> \o NormalizeNewlines(IF Len(text) > 1 /\ text[2] = LF
                                          THEN Tail(Tail(text)) ELSE Tail(text))
    ELSE <<Head(text)>> \o NormalizeNewlines(Tail(text))

(* replace(/\t/g, "    ") followed by the filter keeping "\n" and " ".."~" *)
RECURSIVE ExpandAndFilter(_)
ExpandAndFilter(text) ==
    IF text = <<>> THEN <<>>
    ELSE (IF Head(text) = TAB THEN <<" ", " ", " ", " ">>
          ELSE IF Head(text) = LF \/ Head(text) \notin ControlChars THEN <<Head(text)>>
          ELSE <<>>)
         \o ExpandAndFilter(Tail(text))

(* TextEditor.handlePaste(pastedText) *)
HandlePaste(e, pastedText) ==
    LET pastedLines == SplitLines(ExpandAndFilter(NormalizeNewlines(pastedText)), <<>>)
        currentLine == EditorCurrentLine(e)
        beforeCursor == Substring(currentLine, 0, e.cursorCol)
        afterCursor == Substring(currentLine, e.cursorCol, Len(currentLine))
        last == pastedLines[Len(pastedLines)]
        newLines == SubSeq(e.lines, 1, e.cursorLine)
                    \o <<beforeCursor \o pastedLines[1]>>
                    \o SubSeq(pastedLines, 2, Len(pastedLines) - 1)
                    \o <<last \o afterCursor>>
                    \o SubSeq(e.lines, e.cursorLine + 2, Len(e.lines))
        next == [e EXCEPT !.lines = newLines,
                          !.cursorLine = e.cursorLine + Len(pastedLines) - 1,
                          !.cursorCol = Len(last)]
    IN  IF Len(pastedLines) = 1 THEN InsertEach(e, pastedLines[1], <<>>)
        ELSE Handled(next, <<Call("onChange", EditorGetText(next))>>)

(* TextEditor.addNewLine() *)
AddNewLine(e) ==
    LET currentLine == EditorCurrentLine(e)
        before == Substring(currentLine, 0, e.cursorCol)
        after == Substring(currentLine, e.cursorCol, Len(currentLine))
        next == [e EXCEPT !.lines = InsertLineAt(SetLine(e, e.cursorLine, before).lines,
                                                 e.cursorLine + 1, after),
                          !.cursorLine = e.cursorLine + 1,
                          !.cursorCol = 0]
    IN  Handled(next, <<Call("onChange", EditorGetText(next))>>)

(* TextEditor.handleBackspace() *)
HandleBackspace(e) ==
    LET line == EditorCurrentLine(e)
        next ==
            IF e.cursorCol > 0
            THEN [SetLine(e, e.cursorLine,
                          Substring(line, 0, e.cursorCol - 1)
                          \o Substring(line, e.cursorCol, Len(line)))
                     EXCEPT !.cursorCol = e.cursorCol - 1]
            ELSE IF e.cursorLine > 0
            THEN LET previousLine == At(e.lines, e.cursorLine - 1)
                 IN  [e EXCEPT !.lines = RemoveLineAt(
                                   SetLine(e, e.cursorLine - 1, previousLine \o line).lines,
                                   e.cursorLine),
                               !.cursorLine = e.cursorLine - 1,
                               !.cursorCol = Len(previousLine)]
            ELSE e
    IN  Handled(next, <<Call("onChange", EditorGetText(next))>>)

(* TextEditor.moveToLineStart() and moveToLineEnd() *)
MoveToLineStart(e) == Handled([e EXCEPT !.cursorCol = 0], <<>>)
MoveToLineEnd(e) == Handled([e EXCEPT !.cursorCol = Len(EditorCurrentLine(e))], <<>>)

(* TextEditor.handleForwardDelete() *)
HandleForwardDelete(e) ==
    LET currentLine == EditorCurrentLine(e)
        next ==
            IF e.cursorCol < Len(currentLine)
            THEN SetLine(e, e.cursorLine,
                         Substring(currentLine, 0, e.cursorCol)
                         \o Substring(currentLine, e.cursorCol + 1, Len(currentLine)))
            ELSE IF e.cursorLine < Len(e.lines) - 1
            THEN [e EXCEPT !.lines = RemoveLineAt(
                              SetLine(e, e.cursorLine,
                                      currentLine \o At(e.lines, e.cursorLine + 1)).lines,
                              e.cursorLine + 1)]
            ELSE e
    IN  Handled(next, <<Call("onChange", EditorGetText(next))>>)

(* Variant of DeleteCurrentLine: the cursor column is not clamped. *)
DeleteCurrentLine_NoClamp(e) ==
    LET removed == RemoveLineAt(e.lines, e.cursorLine)
    IN  Handled(IF Len(e.lines) = 1
                THEN [e EXCEPT !.lines = << <<>> >>, !.cursorCol = 0]
                ELSE [e EXCEPT !.lines = removed,
                               !.cursorLine = Min(e.cursorLine, Len(removed) - 1)],
                <<>>)

(* TextEditor.deleteCurrentLine() *)
DeleteCurrentLine(e) ==
    LET removed == RemoveLineAt(e.lines, e.cursorLine)
        cursorLine == IF e.cursorLine >= Len(removed) THEN Len(removed) - 1
                      ELSE e.cursorLine
        next ==
            IF Len(e.lines) = 1
            THEN [e EXCEPT !.lines = << <<>> >>, !.cursorCol = 0]
            ELSE [e EXCEPT !.lines = removed,
                           !.cursorLine = cursorLine,
                           !.cursorCol = Min(e.cursorCol, Len(At(removed, cursorLine)))]
    IN  Handled(next, <<Call("onChange", EditorGetText(next))>>)

(* TextEditor.moveCursor(deltaLine, deltaCol) *)
MoveCursor(e, deltaLine, deltaCol) ==
    LET newLine == e.cursorLine + deltaLine
        moved == IF deltaLine # 0 /\ newLine >= 0 /\ newLine < Len(e.lines)
                 THEN [e EXCEPT !.cursorLine = newLine,
                                !.cursorCol = Min(e.cursorCol, Len(At(e.lines, newLine)))]
                 ELSE e
        maxCol == Len(EditorCurrentLine(moved))
    IN  Handled(IF deltaCol # 0
                THEN [moved EXCEPT !.cursorCol = Max(0, Min(maxCol, moved.cursorCol + deltaCol))]
                ELSE moved,
                <<>>)

(* str.trim() *)
Trim(str) == TrimStart(TrimEnd(str))

(* Variant of Submit: the editor keeps its text. *)
Submit_KeepsText(e) ==
    Handled(e, <<Call("onChange", <<>>), Call("onSubmit", Trim(EditorGetText(e)))>>)

(* TextEditor.handleInput, plain Enter *)
Submit(e) ==
    IF e.disableSubmit THEN Handled(e, <<>>)
    ELSE Handled([e EXCEPT !.lines = << <<>> >>, !.cursorLine = 0, !.cursorCol = 0],
                 <<Call("onChange", <<>>), Call("onSubmit", Trim(EditorGetText(e)))>>)

Contains(str, ch) == \E k \in 1..Len(str) : str[k] = ch

(* TextEditor.handleInput(data), data not empty *)
TextEditorHandleInput(e, data) ==
    IF Len(data) > 10 \/ (Len(data) > 2 /\ Contains(data, LF)) THEN HandlePaste(e, data)
    ELSE IF data[1] = CtrlK THEN DeleteCurrentLine(e)
    ELSE IF data[1] = CtrlA THEN MoveToLineStart(e)
    ELSE IF data[1] = CtrlE THEN MoveToLineEnd(e)
    ELSE IF \/ (data[1] = LF /\ Len(data) > 1)
            \/ data = <<ESC, CR>>
            \/ data = <<ESC, "[", "1", "3", ";", "2", "~">>
            \/ (Len(data) > 1 /\ Contains(data, ESC) /\ Contains(data, CR))
            \/ data = <<LF>>
            \/ data = <<"\\", CR>>
         THEN AddNewLine(e)
    ELSE IF data[1] = CR /\ Len(data) = 1 THEN Submit(e)
    ELSE IF data[1] = DEL \/ data[1] = BS THEN HandleBackspace(e)
    ELSE IF data \in {KeyHome, <<ESC, "[", "1", "~">>, <<ESC, "[", "7", "~">>}
         THEN MoveToLineStart(e)
    ELSE IF data \in {KeyEnd, <<ESC, "[", "4", "~">>, <<ESC, "[", "8", "~">>}
         THEN MoveToLineEnd(e)
    ELSE IF data = KeyDelete THEN HandleForwardDelete(e)
    ELSE IF data = KeyUp THEN MoveCursor(e, -1, 0)
    ELSE IF data = KeyDown THEN MoveCursor(e, 1, 0)
    ELSE IF data = KeyRight THEN MoveCursor(e, 0, 1)
    ELSE IF data = KeyLeft THEN MoveCursor(e, 0, -1)
    ELSE IF data[1] \notin ControlChars THEN InsertCharacter(e, data)
    ELSE Handled(e, <<>>)

(* replace(/\r\n/g, "\n").replace(/\r/g, "\n").split("\n") of setText *)
EditorSetText(e, text) ==
    LET lines == SplitLines(NormalizeNewlines(text), <<>>)
        next == [e EXCEPT !.lines = lines,
                          !.cursorLine = Len(lines) - 1,
                          !.cursorCol = Len(lines[Len(lines)])]
    IN  Handled(next, <<Call("onChange", EditorGetText(next))>>)

(* textEditor.clear() *)
EditorClear(e) ==
    LET next == [e EXCEPT !.lines = << <<>> >>, !.cursorLine = 0, !.cursorCol = 0]
    IN  Handled(next, <<Call("onChange", EditorGetText(next))>>)

(* The title line of the menu *)
MenuTitle == <<"M", "e", "n", "u">>
MenuHint ==
    <<" ", "(", ArrowUpChar, ArrowDownChar, " ", "n", "a", "v", "i", "g",
      "a", "t", "e", ",", " ", "E", "n", "t", "e", "r", " ", "s", "e", "l",
      "e", "c", "t", ",", " ", "E", "s", "c", " ", "c", "l", "o", "s", "e",
      ")">>

(* A toggle entry carries its value in on, an enum entry in value. *)
ToggleEntry(label, on) ==
    [type |-> "toggle", label |-> label, on |-> on, value |-> <<>>, options |-> <<>>]
EnumEntry(label, value, options) ==
    [type |-> "enum", label |-> label, on |-> FALSE, value |-> value, options |-> options]

(* options.indexOf(value) *)
OptionIndex(options, value) ==
    IF \E k \in 1..Len(options) : options[k] = value
    THEN (CHOOSE k \in 1..Len(options) :
             options[k] = value /\ \A j \in 1..(k - 1) : options[j] # value) - 1
    ELSE -1

(* The decimal digits of a number below ten, as the template literal        *)
(* prints it.                                                               *)
NumberChars(n) == <<ToString(n)>>

(* Menu.render, the line of entry i (0-based) *)
MenuEntryLine(m, i) ==
    LET entry == At(m.entries, i)
        isSelected == i = m.selectedIndex
        indicator == IF isSelected THEN ChalkCyan(<<ArrowRightChar, " ">>) ELSE <<" ", " ">>
    IN  IF entry.type = "toggle"
        THEN indicator \o entry.label \o <<":", " ">>
             \o (IF entry.on THEN ChalkGreen(<<CheckChar>>) ELSE ChalkGray(<<CrossChar>>))
        ELSE indicator \o entry.label \o <<":", " ">> \o ChalkYellow(entry.value) \o <<" ">>
             \o ChalkGray(<<"(">> \o NumberChars(OptionIndex(entry.options, entry.value) + 1)
                          \o <<"/">> \o NumberChars(Len(entry.options)) \o <<")">>)

(* Menu.render(width) *)
MenuRender(m, width) ==
    Returned(m,
        <<ChalkBold(MenuTitle) \o ChalkGray(MenuHint), <<>>>>
        \o [k \in 1..Len(m.entries) |-> MenuEntryLine(m, k - 1)])

(* menu.setEntries(entries) *)
MenuSetEntries(m, entries) ==
    Handled([m EXCEPT !.entries = entries,
                      !.selectedIndex = Min(m.selectedIndex, Len(entries) - 1)],
            <<>>)

BoolChars(b) == IF b THEN <<"t", "r", "u", "e">> ELSE <<"f", "a", "l", "s", "e">>

(* Menu.handleInput, Enter on the selected entry *)
MenuSelect(m) ==
    IF m.selectedIndex < 0 \/ m.selectedIndex >= Len(m.entries) THEN Handled(m, <<>>)
    ELSE LET entry == At(m.entries, m.selectedIndex)
             nextIndex == (OptionIndex(entry.options, entry.value) + 1) % Len(entry.options)
             value == IF entry.options = <<>> THEN entry.value
                      ELSE At(entry.options, nextIndex)
         IN  IF entry.type = "toggle"
             THEN Handled([m EXCEPT !.entries[m.selectedIndex + 1].on = ~entry.on],
                          <<Call("entry.onChange", BoolChars(~entry.on))>>)
             ELSE Handled([m EXCEPT !.entries[m.selectedIndex + 1].value = value],
                          <<Call("entry.onChange", value)>>)

(* Menu.handleInput(data) *)
MenuHandleInput(m, data) ==
    IF data = KeyUp THEN Handled([m EXCEPT !.selectedIndex = Max(0, m.selectedIndex - 1)], <<>>)
    ELSE IF data = KeyDown
         THEN Handled([m EXCEPT !.selectedIndex =
                                   Min(Len(m.entries) - 1, m.selectedIndex + 1)], <<>>)
    ELSE IF data = <<CR>> \/ data = <<LF>> THEN MenuSelect(m)
    ELSE IF data = <<ESC>> THEN Handled(m, <<Call("onClose", <<>>)>>)
    ELSE Handled(m, <<>>)

(* The component instances of a behaviour, and the one it exercises. *)
ComponentNames == {"textComponent", "singleLineInput", "textEditor", "menu"}
Subjects == ComponentNames \cup {"container"}

World ==
    [textComponent |-> textComponent, singleLineInput |-> singleLineInput,
     textEditor |-> textEditor, menu |-> menu]

(* The render r of the named instance, as a render of the world w *)
InWorld(w, name, r) ==
    [state |-> [w EXCEPT ![name] = r.state], outcome |-> r.outcome, lines |-> r.lines]

(* component.render(width) of the named instance *)
RenderOf(name, w, width) ==
    InWorld(w, name,
        CASE name = "textComponent" -> TextComponentRender(w.textComponent, width)
          [] name = "singleLineInput" -> SingleLineInputRender(w.singleLineInput, width)
          [] name = "textEditor" -> TextEditorRender(w.textEditor, width)
          [] name = "menu" -> MenuRender(w.menu, width))

RECURSIVE RenderChildren(_, _, _, _)

(* Container.render, after the render r of one child: a child that throws   *)
(* or never returns ends the call.                                          *)
AfterChild(kids, width, lines, r) ==
    IF r.outcome # "returned" THEN [r EXCEPT !.lines = <<>>]
    ELSE RenderChildren(kids, r.state, width, lines \o r.lines)

(* Container.render(width) over the instances: the children are rendered in *)
(* order.                                                                   *)
RenderChildren(kids, w, width, lines) ==
    IF kids = <<>> THEN Returned(w, lines)
    ELSE AfterChild(Tail(kids), width, lines, RenderOf(Head(kids), w, width))

RenderSubject(w, kids, width) ==
    IF subject = "container" THEN RenderChildren(kids, w, width, <<>>)
    ELSE RenderOf(subject, w, width)

EditorMargin == 5
ComponentWidths == (1..(MaxWidth + 1)) \cup {EditorMargin + 1, EditorMargin + 3}

Prompts == {<<">", " ">>, <<>>}
ValueChars == {"a", "b"}
TextSamples ==
    {<<>>, <<"a">>, <<"a", " ">>, <<"a", " ", "a">>, <<"a", "a", " ", "a">>, <<"a", LF, "a">>}
Paddings == 0..MaxWidth
InputKeys ==
    {<<"a">>, <<"b">>, <<CR>>, <<DEL>>, KeyLeft, KeyRight, KeyHome, KeyEnd, KeyDelete,
     <<CtrlU>>, <<ESC>>}
ContainerKeys == {<<"a">>, KeyLeft}
ContainerChildren == {"textComponent", "singleLineInput"}
(* The longest text the editor is driven to: room for the pasted text. *)
EditorMaxText == MaxValue + 1
EditorKeys ==
    {<<"a">>, <<" ">>, <<CR>>, <<LF>>, <<DEL>>, KeyLeft, KeyRight, KeyUp, KeyDown,
     KeyHome, KeyEnd, KeyDelete, <<CtrlK>>, <<CtrlA>>, <<CtrlE>>, <<ESC>>,
     <<"a", LF, "a">>}
EditorTexts == {<<>>, <<"a">>, <<"a", LF>>, <<" ", "a", CR, LF>>}
MenuKeys == {KeyUp, KeyDown, <<CR>>, <<ESC>>, <<"a">>}
MenuEntrySets ==
    {<<>>,
     <<ToggleEntry(<<"t">>, FALSE)>>,
     <<ToggleEntry(<<"t">>, TRUE), EnumEntry(<<"e">>, <<"x">>, <<<<"x">>, <<"y">>>>)>>}

ComponentInit ==
    /\ oldBuffer = <<>>
    /\ isFirstRender = TRUE
    /\ renderRequested = FALSE
    /\ tickQueue = 0
    /\ rootLines = <<>>
    /\ rows = MaxRows
    /\ display = [lines |-> <<Blank>>, cur |-> 1, saved |-> 1]
    /\ writes = <<>>
    /\ cycle = NoCycle
    /\ lastFrame = <<>>
    /\ resized = FALSE
    /\ focusedComponent = "undefined"
    /\ onGlobalInput = FALSE
    /\ pt = PtFresh
    /\ children = [k \in Containers |-> <<>>]
    /\ op = NoOp
    /\ batch = NoBatch(<<>>)
    /\ life = <<>>
    /\ subject \in Subjects
    /\ textComponent = TextComponentNew
    /\ \E prompt \in Prompts :
          /\ subject # "singleLineInput" => prompt = <<">", " ">>
          /\ singleLineInput = [SingleLineInputNew EXCEPT !.prompt = prompt]
    /\ \E disableSubmit \in BOOLEAN :
          /\ subject # "textEditor" => ~disableSubmit
          /\ textEditor = [TextEditorNew EXCEPT !.disableSubmit = disableSubmit]
    /\ menu = MenuNew
    /\ callbacks = <<>>

(* A render that never returned: nothing runs after it. *)
NeverReturned == op.name = "render" /\ op.outcome = "hangs"

Untouched == UNCHANGED <<renderVars, focusedComponent, onGlobalInput, pt, batch, life, subject>>

Called(name, before) == [name |-> name, component |-> subject, before |-> before]

(* textComponent.setText(text) *)
TextSetText ==
    /\ subject = "textComponent" /\ ~NeverReturned
    /\ \E text \in TextSamples : textComponent' = [textComponent EXCEPT !.text = text]
    /\ callbacks' = <<>>
    /\ op' = Called("setText", World)
    /\ Untouched
    /\ UNCHANGED <<singleLineInput, textEditor, menu, children>>

(* textComponent.setOptions(options) *)
TextSetOptions ==
    /\ subject = "textComponent" /\ ~NeverReturned
    /\ \E l \in Paddings, r \in Paddings, t \in 0..1, b \in 0..1 :
          textComponent' = [textComponent EXCEPT !.paddingLeft = l, !.paddingRight = r,
                                                 !.paddingTop = t, !.paddingBottom = b]
    /\ callbacks' = <<>>
    /\ op' = Called("setOptions", World)
    /\ Untouched
    /\ UNCHANGED <<singleLineInput, textEditor, menu, children>>

(* singleLineInput.handleInput(data) *)
InputHandleInput ==
    /\ subject \in {"singleLineInput", "container"} /\ ~NeverReturned
    /\ \E data \in IF subject = "container" THEN ContainerKeys ELSE InputKeys :
          LET h == SingleLineInputHandleInput(singleLineInput, data)
          IN  /\ Len(h.state.value) <= MaxValue
              /\ singleLineInput' = h.state
              /\ callbacks' = h.calls
              /\ op' = [Called("handleInput", World) EXCEPT !.component = "singleLineInput"]
                          @@ [data |-> data]
    /\ Untouched
    /\ UNCHANGED <<textComponent, textEditor, menu, children>>

(* singleLineInput.setValue(value) *)
InputSetValue ==
    /\ subject = "singleLineInput" /\ ~NeverReturned
    /\ \E value \in StringsUpTo(ValueChars, MaxValue) :
          LET h == SingleLineInputSetValue(singleLineInput, value)
          IN  /\ singleLineInput' = h.state
              /\ callbacks' = h.calls
    /\ op' = Called("setValue", World)
    /\ Untouched
    /\ UNCHANGED <<textComponent, textEditor, menu, children>>

(* singleLineInput.clear() *)
InputClear ==
    /\ subject = "singleLineInput" /\ ~NeverReturned
    /\ singleLineInput' = SingleLineInputClear(singleLineInput).state
    /\ callbacks' = SingleLineInputClear(singleLineInput).calls
    /\ op' = Called("clear", World)
    /\ Untouched
    /\ UNCHANGED <<textComponent, textEditor, menu, children>>

(* textEditor.handleInput(data) *)
EditorHandleInput ==
    /\ subject = "textEditor" /\ ~NeverReturned
    /\ \E data \in EditorKeys :
          LET h == TextEditorHandleInput(textEditor, data)
          IN  /\ Len(EditorGetText(h.state)) <= EditorMaxText
              /\ textEditor' = h.state
              /\ callbacks' = h.calls
              /\ op' = Called("handleInput", World) @@ [data |-> data]
    /\ Untouched
    /\ UNCHANGED <<textComponent, singleLineInput, menu, children>>

(* textEditor.setText(text) *)
EditorSetTextCall ==
    /\ subject = "textEditor" /\ ~NeverReturned
    /\ \E text \in EditorTexts :
          LET h == EditorSetText(textEditor, text)
          IN  /\ textEditor' = h.state
              /\ callbacks' = h.calls
    /\ op' = Called("setText", World)
    /\ Untouched
    /\ UNCHANGED <<textComponent, singleLineInput, menu, children>>

(* textEditor.clear() *)
EditorClearCall ==
    /\ subject = "textEditor" /\ ~NeverReturned
    /\ textEditor' = EditorClear(textEditor).state
    /\ callbacks' = EditorClear(textEditor).calls
    /\ op' = Called("clear", World)
    /\ Untouched
    /\ UNCHANGED <<textComponent, singleLineInput, menu, children>>

(* menu.setEntries(entries) *)
MenuSetEntriesCall ==
    /\ subject = "menu" /\ ~NeverReturned
    /\ \E entries \in MenuEntrySets : menu' = MenuSetEntries(menu, entries).state
    /\ callbacks' = <<>>
    /\ op' = Called("setEntries", World)
    /\ Untouched
    /\ UNCHANGED <<textComponent, singleLineInput, textEditor, children>>

(* menu.handleInput(data) *)
MenuHandleInputCall ==
    /\ subject = "menu" /\ ~NeverReturned
    /\ \E data \in MenuKeys :
          LET h == MenuHandleInput(menu, data)
          IN  /\ menu' = h.state
              /\ callbacks' = h.calls
              /\ op' = Called("handleInput", World) @@ [data |-> data]
    /\ Untouched
    /\ UNCHANGED <<textComponent, singleLineInput, textEditor, children>>

(* container.addChild(component), the component one of the instances *)
ContainerAddInstance ==
    /\ subject = "container" /\ ~NeverReturned
    /\ Len(children["c1"]) < MaxChildren
    /\ \E c \in ContainerChildren : children' = [children EXCEPT !["c1"] = Append(@, c)]
    /\ callbacks' = <<>>
    /\ op' = Called("addChild", World)
    /\ Untouched
    /\ UNCHANGED <<textComponent, singleLineInput, textEditor, menu>>

(* subject.render(width).  The observation keeps the components before the  *)
(* call, the components before the first of the renders that follow one     *)
(* another, and the result of the render right before this one when that    *)
(* had the same width.                                                      *)
Rendered(width, r) ==
    /\ textComponent' = r.state.textComponent
    /\ singleLineInput' = r.state.singleLineInput
    /\ textEditor' = r.state.textEditor
    /\ menu' = r.state.menu
    /\ op' = [name |-> "render", component |-> subject, width |-> width,
              outcome |-> r.outcome, result |-> r.lines,
              before |-> World,
              base |-> IF op.name = "render" THEN op.base ELSE World,
              prev |-> IF op.name = "render" /\ op.width = width
                       THEN <<[outcome |-> op.outcome, result |-> op.result]>>
                       ELSE <<>>]

ComponentRender ==
    /\ subject \in Subjects /\ ~NeverReturned
    /\ \E width \in ComponentWidths :
          Rendered(width, RenderSubject(World, children["c1"], width))
    /\ callbacks' = <<>>
    /\ Untouched
    /\ UNCHANGED children

ComponentNext ==
    \/ TextSetText
    \/ TextSetOptions
    \/ InputHandleInput
    \/ InputSetValue
    \/ InputClear
    \/ EditorHandleInput
    \/ EditorSetTextCall
    \/ EditorClearCall
    \/ MenuSetEntriesCall
    \/ MenuHandleInputCall
    \/ ContainerAddInstance
    \/ ComponentRender

ComponentSpec == ComponentInit /\ [][ComponentNext]_vars

----------------------------------------------------------------------------
(* The TUI with a text component and a single-line input as the instances  *)
(* the application adds to and removes from the root, sets focus on and     *)
(* types into. Each instance is added while it is not a child; no global    *)
(* input handler is installed.                                              *)

(* terminal.columns in these runs: room for the prompt, the value and the cursor. *)
FocusColumns == MaxValue + MaxWidth + 2

FocusChoices == {"undefined"} \cup ContainerChildren

(* The chunks the terminal delivers in these runs: one printable key. *)
FocusKeys == {<<"a">>}

(* Whether the focused object has a handleInput method: TextComponent has none. *)
FocusCanHandle(c) == c = "singleLineInput"

JoinAll(lines) == [k \in 1..Len(lines) |-> JoinChars(lines[k])]

(* root.render(width) with the given children and components *)
FocusRender(kids, w) == RenderChildren(kids, w, FocusColumns, <<>>)

FocusFrame(kids, w) == JoinAll(FocusRender(kids, w).lines)

FocusInit ==
    /\ oldBuffer = <<>>
    /\ isFirstRender = TRUE
    /\ renderRequested = FALSE
    /\ tickQueue = 0
    /\ rootLines = <<>>
    /\ rows = MaxRows
    /\ display = [lines |-> <<Blank>>, cur |-> 1, saved |-> 1]
    /\ writes = <<>>
    /\ cycle = NoCycle
    /\ lastFrame = <<>>
    /\ resized = FALSE
    /\ SessionInit
    /\ subject = "none"
    /\ textComponent = [TextComponentNew EXCEPT !.text = <<"a">>]
    /\ singleLineInput = SingleLineInputNew
    /\ textEditor = TextEditorNew
    /\ menu = MenuNew
    /\ callbacks = <<>>

(* What a TUI call that neither renders nor schedules leaves alone. *)
FocusQuiet ==
    /\ writes' = <<>>
    /\ cycle' = NoCycle
    /\ callbacks' = <<>>
    /\ UNCHANGED <<oldBuffer, isFirstRender, renderRequested, tickQueue, rows, display,
                   lastFrame, resized, onGlobalInput, pt, batch, life, subject,
                   textComponent, singleLineInput, textEditor, menu>>

FocusObserved(name, arg) ==
    [name |-> name, arg |-> arg, focus |-> focusedComponent, kids |-> children["c1"],
     input |-> singleLineInput, pending |-> renderRequested]

(* tui.addChild(component) *)
TuiAddChild ==
    /\ \E c \in ContainerChildren :
          /\ ~InSeq(children["c1"], c)
          /\ children' = [children EXCEPT !["c1"] = Append(@, c)]
          /\ rootLines' = FocusFrame(Append(children["c1"], c), World)
          /\ op' = FocusObserved("addChild", c)
    /\ UNCHANGED focusedComponent
    /\ FocusQuiet

(* Variant of FocusAfterRemove: removing the focused component clears the focus. *)
FocusAfterRemove_Blurs(removed) ==
    IF removed = focusedComponent THEN "undefined" ELSE focusedComponent

(* focusedComponent after tui.removeChild(component): the method only       *)
(* forwards to the root container.                                          *)
FocusAfterRemove(removed) == focusedComponent

(* The root's children after container.removeChild(component) *)
WithoutChild(kids, c) ==
    IF IndexOf(kids, c) # -1 THEN Splice(kids, IndexOf(kids, c)) ELSE kids

(* tui.removeChild(component) *)
TuiRemoveChild ==
    /\ \E c \in ContainerChildren :
          /\ children' = [children EXCEPT !["c1"] = WithoutChild(@, c)]
          /\ rootLines' = FocusFrame(WithoutChild(children["c1"], c), World)
          /\ focusedComponent' = FocusAfterRemove(c)
          /\ op' = FocusObserved("removeChild", c)
    /\ FocusQuiet

(* tui.clear() *)
TuiClear ==
    /\ children' = [children EXCEPT !["c1"] = <<>>]
    /\ rootLines' = <<>>
    /\ op' = FocusObserved("clear", "undefined")
    /\ UNCHANGED focusedComponent
    /\ FocusQuiet

(* tui.setFocus(component) *)
TuiSetFocus ==
    /\ \E c \in FocusChoices :
          /\ focusedComponent' = c
          /\ op' = FocusObserved("setFocus", c)
    /\ UNCHANGED <<children, rootLines>>
    /\ FocusQuiet

(* TUI.handleInput when the focused component has handleInput: h is what    *)
(* the component's handler does with the chunk.                             *)
FocusDeliver(data, h) ==
    /\ Len(h.state.value) <= MaxValue
    /\ singleLineInput' = h.state
    /\ callbacks' = h.calls
    /\ ScheduleRender
    /\ rootLines' = FocusFrame(children["c1"], [World EXCEPT !.singleLineInput = h.state])

(* TUI.handleInput when nothing takes the chunk *)
FocusDrop ==
    /\ callbacks' = <<>>
    /\ UNCHANGED <<singleLineInput, renderRequested, tickQueue, rootLines>>

(* The terminal delivers one chunk: TUI.handleInput(data). *)
TuiHandleInput ==
    /\ \E data \in FocusKeys :
          /\ IF FocusCanHandle(focusedComponent)
             THEN FocusDeliver(data, SingleLineInputHandleInput(singleLineInput, data))
             ELSE FocusDrop
          /\ op' = FocusObserved("handleInput", data)
    /\ writes' = <<>>
    /\ cycle' = NoCycle
    /\ UNCHANGED <<oldBuffer, isFirstRender, rows, display, lastFrame, resized,
                   focusedComponent, onGlobalInput, pt, children, batch, life, subject,
                   textComponent, textEditor, menu>>

(* The components and the observation after the root rendered as r. *)
FocusRendered(r) ==
    /\ textComponent' = r.state.textComponent
    /\ singleLineInput' = r.state.singleLineInput
    /\ op' = [FocusObserved("tick", "undefined") EXCEPT !.input = r.lines]

(* The deferred callback runs. *)
TuiTick ==
    /\ NextTickBody
    /\ FocusRendered(FocusRender(children["c1"], World))
    /\ callbacks' = <<>>
    /\ UNCHANGED <<focusedComponent, onGlobalInput, pt, children, batch, life, subject,
                   textEditor, menu>>

FocusNext ==
    \/ TuiAddChild
    \/ TuiRemoveChild
    \/ TuiClear
    \/ TuiSetFocus
    \/ TuiHandleInput
    \/ TuiTick

FocusSpec == FocusInit /\ [][FocusNext]_vars

----------------------------------------------------------------------------
(* What the claims speak of *)

(* The first index at which two buffers differ below n (n when none does). *)
FirstDiff(a, b, n) ==
    IF \A j \in 0..(n - 1) : At(a, j) = At(b, j) THEN n
    ELSE CHOOSE i \in 0..(n - 1) :
            /\ At(a, i) # At(b, i)
            /\ \A j \in 0..(i - 1) : At(a, j) = At(b, j)

(* The log of a full rebuild of buf: the three clear sequences, then the    *)
(* lines from index 0 with one line feed between consecutive lines.         *)
FullRebuildLog(buf) ==
    [k \in 1..(3 + (IF Len(buf) = 0 THEN 0 ELSE 2 * Len(buf) - 1)) |->
        IF k = 1 THEN W(ClearScrollback)
        ELSE IF k = 2 THEN W(ClearScreen)
        ELSE IF k = 3 THEN W(CursorHome)
        ELSE IF (k - 3) % 2 = 1 THEN WL(At(buf, (k - 4) \div 2), (k - 4) \div 2)
        ELSE W(LF)]

(* The log of appending buf's lines from index `from` on. *)
AppendLog(buf, from) ==
    [k \in 1..(Len(buf) - from) |-> WL(LF \o At(buf, from + k - 1), from + k - 1)]

IsClearLineWrite(w) == \E t \in LineTexts : w.data = ClearLine \o t

HasData(ws, data) == \E k \in 1..Len(ws) : ws[k].data = data

NoClearSequences(ws) ==
    \A k \in 1..Len(ws) :
        /\ ws[k].data \notin {ClearScrollback, ClearScreen, CursorHome, SaveCursor,
                              RestoreCursor, ClearLine}
        /\ ~IsClearLineWrite(ws[k])

(* A cycle that is neither the first one nor the first after a resize. *)
NonForced == cycle.ran /\ cycle.prevFrame # <<>> /\ ~cycle.afterResize

ViewportStart(len, height) == Max(0, len - height)

(* The differing indices below n, ascending. *)
DiffIndices(a, b, n) ==
    SelectSeq([k \in 1..n |-> k - 1], LAMBDA i : At(a, i) # At(b, i))

(* C1: after every completed render cycle the rows the terminal holds,      *)
(* scrollback followed by the screen, equal oldBuffer line for line.        *)
C1_TerminalShowsOldBuffer ==
    cycle.ran => Shown(display) = oldBuffer

(* C2: after every render cycle that completes, whichever branch it took,   *)
(* the previous buffer equals the candidate of that cycle.                  *)
C2_BufferSwapped ==
    cycle.ran => oldBuffer = cycle.new

C2_Witness ==
    /\ cycle.ran /\ NonForced
    /\ Len(cycle.new) < Len(cycle.old)
    /\ oldBuffer = cycle.new

(* C3: in a cycle that is not forced, a candidate equal to the previous     *)
(* buffer makes the engine call terminal.write zero times.                  *)
C3_NoOpWritesNothing ==
    (NonForced /\ cycle.new = cycle.old) => writes = <<>>

C3_Witness ==
    /\ NonForced
    /\ cycle.new = cycle.old
    /\ Len(cycle.old) = MaxLines
    /\ writes = <<>>

(* C4: in a cycle that is not forced, a candidate that extends the previous *)
(* buffer is rendered by one write per new line, in index order, each a     *)
(* line break followed by the line, and by no clear or cursor sequence.     *)
C4_AppendOnly ==
    (/\ NonForced
     /\ Len(cycle.old) < Len(cycle.new)
     /\ SubSeq(cycle.new, 1, Len(cycle.old)) = cycle.old)
    => /\ writes = AppendLog(cycle.new, Len(cycle.old))
       /\ NoClearSequences(writes)

C4_Witness ==
    /\ NonForced
    /\ Len(cycle.old) >= 1
    /\ Len(cycle.new) >= Len(cycle.old) + 2
    /\ SubSeq(cycle.new, 1, Len(cycle.old)) = cycle.old
    /\ Len(writes) = Len(cycle.new) - Len(cycle.old)

(* C5: same length L, R rows, not forced: a first differing index below     *)
(* L - R gives a full rebuild; one at or above max(0, L - R) gives a        *)
(* partial update that writes neither clear-scrollback nor clear-screen.    *)
C5_ScrollbackBoundary ==
    (NonForced /\ Len(cycle.old) = Len(cycle.new) /\ cycle.old # cycle.new)
    => LET L == Len(cycle.new)
           i == FirstDiff(cycle.old, cycle.new, L)
       IN  /\ i < L - cycle.rows => writes = FullRebuildLog(cycle.new)
           /\ i >= ViewportStart(L, cycle.rows) =>
                 /\ writes # <<>>
                 /\ writes[1].data = SaveCursor
                 /\ \E k \in 1..Len(writes) :
                       writes[k] = WL(ClearLine \o At(cycle.new, i), i)
                 /\ ~HasData(writes, ClearScrollback)
                 /\ ~HasData(writes, ClearScreen)

C5_Witness ==
    /\ NonForced
    /\ Len(cycle.old) = Len(cycle.new)
    /\ cycle.old # cycle.new
    /\ FirstDiff(cycle.old, cycle.new, Len(cycle.new)) = Len(cycle.new) - cycle.rows - 1
    /\ HasData(writes, ClearScrollback)

(* C6: a candidate shorter than the previous buffer is always rendered by   *)
(* a full rebuild, whatever the contents and the terminal height.           *)
C6_ShrinkRebuilds ==
    (cycle.ran /\ Len(cycle.new) < Len(cycle.old))
    => writes = FullRebuildLog(cycle.new)

C6_Witness ==
    /\ NonForced
    /\ 0 < Len(cycle.new)
    /\ Len(cycle.new) < Len(cycle.old)
    /\ cycle.new = SubSeq(cycle.old, 1, Len(cycle.new))
    /\ cycle.rows >= Len(cycle.old)
    /\ writes = FullRebuildLog(cycle.new)

(* C7: the first cycle that runs after a resize notification is a full      *)
(* rebuild, also when the candidate is the frame rendered before it.        *)
C7_ResizeRebuilds ==
    (cycle.ran /\ cycle.afterResize) => writes = FullRebuildLog(cycle.new)

C7_Witness ==
    /\ cycle.ran
    /\ cycle.afterResize
    /\ cycle.prevFrame = <<cycle.new>>
    /\ Len(cycle.new) >= 2
    /\ HasData(writes, ClearScrollback)

(* C8: in a cycle that is not a full rebuild, every buffer index rewritten  *)
(* in place (clear-line plus content) is at or above                        *)
(* max(0, previousLength - rows), rows as read in that cycle.               *)
C8_PatchesStayInViewport ==
    (cycle.ran /\ ~HasData(writes, ClearScrollback))
    => \A k \in 1..Len(writes) :
          IsClearLineWrite(writes[k])
          => writes[k].line >= ViewportStart(Len(cycle.old), cycle.rows)

C8_Witness ==
    /\ cycle.ran
    /\ ~HasData(writes, ClearScrollback)
    /\ Len(cycle.old) > cycle.rows
    /\ \E k \in 1..Len(writes) :
          /\ IsClearLineWrite(writes[k])
          /\ writes[k].line = ViewportStart(Len(cycle.old), cycle.rows)

(* C9: not forced, candidate longer, overlapping prefix differs: a first    *)
(* differing index below max(0, previousLength - rows) gives a full rebuild *)
(* and nothing after it; otherwise the differing indices below              *)
(* previousLength are rewritten first, in order, and the trailing lines     *)
(* from previousLength on follow, each preceded by a line break.            *)
C9_GrowWithChangedPrefix ==
    (/\ NonForced
     /\ Len(cycle.old) < Len(cycle.new)
     /\ SubSeq(cycle.new, 1, Len(cycle.old)) # cycle.old)
    => LET oldLen == Len(cycle.old)
           i == FirstDiff(cycle.old, cycle.new, oldLen)
           tail == AppendLog(cycle.new, oldLen)
           p == Len(writes) - Len(tail)
           patched == SelectSeq(SubSeq(writes, 1, p), IsClearLineWrite)
           diffs == DiffIndices(cycle.old, cycle.new, oldLen)
       IN  IF i < ViewportStart(oldLen, cycle.rows)
           THEN writes = FullRebuildLog(cycle.new)
           ELSE /\ p >= 1
                /\ SubSeq(writes, p + 1, Len(writes)) = tail
                /\ \A k \in 1..p : writes[k].line < oldLen
                /\ patched = [k \in 1..Len(diffs) |->
                                WL(ClearLine \o At(cycle.new, diffs[k]), diffs[k])]
                /\ ~HasData(writes, ClearScrollback)

C9_Witness ==
    /\ NonForced
    /\ Len(cycle.old) >= 2
    /\ Len(cycle.old) < Len(cycle.new)
    /\ SubSeq(cycle.new, 1, Len(cycle.old)) # cycle.old
    /\ ~HasData(writes, ClearScrollback)
    /\ writes[Len(writes)] = WL(LF \o cycle.new[Len(cycle.new)], Len(cycle.new) - 1)

(* C10: the first cycle after construction is a full rebuild, and every     *)
(* full rebuild writes clear-scrollback, clear-screen, cursor-home and then *)
(* the candidate lines from index 0 with exactly one line feed between      *)
(* consecutive lines and none after the last; for an empty candidate only   *)
(* the three clear sequences.                                               *)
C10_FirstRenderAndRebuildOrder ==
    cycle.ran =>
        /\ cycle.prevFrame = <<>> => writes = FullRebuildLog(cycle.new)
        /\ (HasData(writes, ClearScrollback) \/ HasData(writes, ClearScreen)
            \/ HasData(writes, CursorHome))
           => writes = FullRebuildLog(cycle.new)

C10_Witness ==
    /\ cycle.ran
    /\ cycle.prevFrame = <<>>
    /\ ~cycle.afterResize
    /\ Len(cycle.new) >= 2
    /\ Len(writes) = 2 * Len(cycle.new) + 2

(* C11: for every chunk, an installed global handler is called first; when  *)
(* it reports consumed the focused component's handleInput is not called;   *)
(* otherwise handleInput is called exactly when a component holds focus and *)
(* has a handleInput.                                                       *)
C11_InputRouting ==
    op.name = "handleInput" =>
        /\ op.installed => (op.calls # <<>> /\ op.calls[1] = "onGlobalInput")
        /\ ~op.installed => ~InSeq(op.calls, "onGlobalInput")
        /\ (op.installed /\ op.answer) => ~InSeq(op.calls, "handleInput")
        /\ ~(op.installed /\ op.answer) =>
              (InSeq(op.calls, "handleInput")
               <=> (op.focus # "undefined" /\ HasHandleInput(op.focus)))
        /\ InSeq(op.calls, "handleInput") =>
              rootLines = ComponentHandleInput(op.before, op.data)
        /\ ~InSeq(op.calls, "handleInput") => rootLines = op.before

C11_Witness ==
    /\ op.name = "handleInput"
    /\ op.installed
    /\ ~op.answer
    /\ op.focus = "editor"
    /\ op.calls = <<"onGlobalInput", "handleInput", "requestRender">>

(* C12: a chunk delivered to the focused component is followed by a render  *)
(* request, whether or not the component's state changed; a chunk consumed  *)
(* by the global handler, or with no focused handleInput, makes the         *)
(* orchestrator request no render and write nothing.                        *)
C12_DeliveryRequestsRender ==
    op.name = "handleInput" =>
        /\ InSeq(op.calls, "handleInput") =>
              /\ \E k \in 1..(Len(op.calls) - 1) :
                    op.calls[k] = "handleInput" /\ op.calls[k + 1] = "requestRender"
              /\ renderRequested
              /\ tickQueue = 1
        /\ ~InSeq(op.calls, "handleInput") =>
              /\ ~InSeq(op.calls, "requestRender")
              /\ renderRequested = op.pending
              /\ writes = <<>>

C12_Witness ==
    /\ op.name = "handleInput"
    /\ InSeq(op.calls, "handleInput")
    /\ rootLines = op.before
    /\ ~op.pending
    /\ renderRequested

(* C13: however many requestRender calls a batch holds, at most one         *)
(* deferred render is pending, the pending flag is true exactly while one   *)
(* is pending, and the batch's calls are answered by exactly one render     *)
(* cycle, after which nothing is left pending.                              *)
C13_OneRenderPerBatch ==
    /\ tickQueue <= 1
    /\ renderRequested <=> (tickQueue = 1)
    /\ (batch.requests > 0) <=> (tickQueue = 1)
    /\ cycle.ran <=> (op.name = "tick")
    /\ op.name = "tick" =>
          /\ op.requests >= 1
          /\ tickQueue = 0
          /\ ~renderRequested
          /\ batch.requests = 0

C13_Witness ==
    /\ op.name = "tick"
    /\ op.requests >= 2
    /\ cycle.ran
    /\ tickQueue = 0

(* C14: chunks take effect in arrival order, and a deferred render's        *)
(* candidate buffer is computed from the component state that results from  *)
(* every chunk delivered before it ran; a delivered chunk always has a      *)
(* render pending behind it.                                                *)
C14_RenderSeesAllChunks ==
    /\ rootLines = ApplyAll(batch.base, batch.chunks)
    /\ batch.chunks # <<>> => (renderRequested /\ tickQueue = 1)
    /\ op.name = "tick" =>
          /\ cycle.ran
          /\ cycle.new = ApplyAll(op.base, op.chunks)
          /\ oldBuffer = cycle.new

C14_Witness ==
    /\ op.name = "tick"
    /\ Len(op.chunks) >= 2
    /\ op.chunks[1] # op.chunks[2]
    /\ cycle.new = op.base \o op.chunks
    /\ op.base # <<>>

(* C18: setFocus changes the focus reference and nothing else: it writes    *)
(* nothing, requests no render and leaves the previous buffer, the pending  *)
(* flag and deferred render, the forced-full flag, the component tree and   *)
(* the terminal as they were; getFocus then returns the value set.          *)
C18_SetFocusFrame ==
    [][op'.name = "setFocus" =>
          /\ GetFocus' = op'.arg
          /\ writes' = <<>>
          /\ ~cycle'.ran
          /\ UNCHANGED <<oldBuffer, renderRequested, tickQueue, isFirstRender, rootLines,
                         children, display, rows, onGlobalInput>>]_vars

C18_Witness ==
    /\ op.name = "setFocus"
    /\ op.arg = "editor"
    /\ GetFocus = "editor"
    /\ renderRequested
    /\ oldBuffer # <<>>
    /\ rootLines # oldBuffer

(* The lifecycle calls so far end with the given calls. *)
LifeEndsWith(calls) ==
    /\ Len(life) >= Len(calls)
    /\ SubSeq(life, Len(life) - Len(calls) + 1, Len(life)) = calls

Stopped == LifeEndsWith(<<"stop">>)

(* C15: once TUI.stop() has returned (and start has not been called again)  *)
(* no render cycle executes and no frame data is written, even when a       *)
(* render was pending at the time of the stop.                              *)
C15_NoRenderAfterStop ==
    (Stopped /\ op.name # "stop") => (~cycle.ran /\ writes = <<>>)

(* C16: redundant lifecycle calls are no-ops: a second start() without a    *)
(* stop() between registers no further listener and writes nothing more; a  *)
(* second stop() writes nothing more and changes no terminal mode or        *)
(* listener; after start, start, stop no listener remains attached.         *)
C16_RedundantLifecycleNoOp ==
    /\ (op.name = "start" /\ LifeEndsWith(<<"start", "start">>)) =>
          /\ pt.dataListeners = op.before.dataListeners
          /\ pt.resizeListeners = op.before.resizeListeners
          /\ writes = <<>>
    /\ (op.name = "stop" /\ LifeEndsWith(<<"stop", "stop">>)) =>
          /\ writes = <<>>
          /\ pt = op.before
    /\ LifeEndsWith(<<"start", "start", "stop">>) =>
          /\ pt.dataListeners = 0
          /\ pt.resizeListeners = 0

(* C17: after ProcessTerminal.start followed by stop, raw mode is off,      *)
(* neither the stdin nor the stdout listener is attached, and no chunk or   *)
(* resize arriving afterwards reaches the callbacks.                        *)
C17_DetachedAfterStop ==
    Stopped =>
        /\ ~pt.rawMode
        /\ pt.dataListeners = 0
        /\ pt.resizeListeners = 0
        /\ op.name \in {"data", "resize"} => op.reached = 0

(* The lines of the i-th child of a list at a width, one after another. *)
LinesOfChildren(kids, width) ==
    LET RECURSIVE upTo(_)
        upTo(n) == IF n = 0 THEN <<>> ELSE upTo(n - 1) \o ChildRender(kids[n], width)
    IN  upTo(Len(kids))

(* The list without its element at the 1-based position i. *)
Without(kids, i) == [j \in 1..(Len(kids) - 1) |-> IF j < i THEN kids[j] ELSE kids[j + 1]]

Others(kids, c) == SelectSeq(kids, LAMBDA e : e # c)

(* C19: after any sequence of addChild, removeChild and clear, render(width) *)
(* returns the lines of each current child rendered at that same width, in  *)
(* the order the remaining children were added: addChild puts the child     *)
(* last, clear leaves none, and neither touches another container.          *)
C19_RenderConcatenatesChildren ==
    /\ op.name = "render" =>
          /\ op.result = LinesOfChildren(children[op.container], op.width)
          /\ children = op.before
    /\ op.name = "addChild" =>
          /\ children[op.container] = op.before[op.container] \o <<op.arg>>
          /\ \A k \in Containers \ {op.container} : children[k] = op.before[k]
    /\ op.name = "clear" =>
          /\ children[op.container] = <<>>
          /\ \A k \in Containers \ {op.container} : children[k] = op.before[k]

C19_Witness ==
    /\ op.name = "render"
    /\ op.width < MaxWidth
    /\ children[op.container] = <<"y", "x">>
    /\ op.result = <<"c", "a", "b">>

(* C20: removeChild(c) removes one child identical to c wherever it stands  *)
(* and keeps the others in their relative order; when c is not a child the  *)
(* collection is unchanged; the call never fails.                           *)
C20_RemoveChild ==
    op.name = "removeChild" =>
        LET was == op.before[op.container]
            now == children[op.container]
        IN  /\ \A k \in Containers \ {op.container} : children[k] = op.before[k]
            /\ IF \E i \in 1..Len(was) : was[i] = op.arg
               THEN /\ \E i \in 1..Len(was) : was[i] = op.arg /\ now = Without(was, i)
                    /\ Others(now, op.arg) = Others(was, op.arg)
               ELSE now = was

C20_Witness ==
    /\ op.name = "removeChild"
    /\ op.arg = "y"
    /\ op.before[op.container] = <<"x", "y", "x">>
    /\ children[op.container] = <<"x", "x">>

(* How many times c stands in the list. *)
Occurrences(kids, c) == Len(SelectSeq(kids, LAMBDA e : e = c))

(* C21: after any sequence of addChild, removeChild and clear over several  *)
(* Containers, each component is a child of at most one Container and       *)
(* stands at most once in it, and after removeChild(c) the component c is   *)
(* no longer a child of that Container.                                     *)
C21_ExclusiveOwnership ==
    /\ \A c \in Components :
          /\ \A k \in Containers : Occurrences(children[k], c) <= 1
          /\ \A k1, k2 \in Containers :
                (Occurrences(children[k1], c) > 0 /\ Occurrences(children[k2], c) > 0)
                => k1 = k2
    /\ op.name = "removeChild" => Occurrences(children[op.container], op.arg) = 0

(* A cycle that wrote no full rebuild: it wrote nothing, appended, or       *)
(* patched rows in place.                                                   *)
NoRebuild == cycle.ran /\ ~HasData(writes, ClearScrollback)

IsCursorUp(w) == \E n \in 0..(MaxLines + 1) : w.data = CursorUp(n)

(* C29: in every partial update the cursor-up count written for a run is    *)
(* the number of rows between the row the cursor rests on (the row of the   *)
(* last line of the previous buffer) and the row of the run's first index.  *)
C29_CursorUpReachesRun ==
    NoRebuild =>
        \A k \in 1..Len(writes) :
            writes[k].data = SaveCursor =>
                writes[k + 1].data
                    = CursorUp((Len(cycle.old) - 1) - writes[k + 3].line)

(* The writes of a partial update over the ascending differing indices d,   *)
(* from the j-th on: a maximal run of consecutive indices is save-cursor,   *)
(* cursor-up, carriage return, one clear-line-plus-content write per index  *)
(* with a line feed between two lines of the run, restore-cursor.           *)
RECURSIVE RunsLog(_, _, _)
RunsLog(new, d, j) ==
    IF j > Len(d) THEN <<>>
    ELSE (IF j = 1 \/ d[j] # d[j - 1] + 1
          THEN <<W(SaveCursor), W("up"), W(CR)>> ELSE <<>>)
         \o <<WL(ClearLine \o At(new, d[j]), d[j])>>
         \o (IF j < Len(d) /\ d[j + 1] = d[j] + 1
             THEN <<W(LF)>> ELSE <<W(RestoreCursor)>>)
         \o RunsLog(new, d, j + 1)

(* The log with every cursor-up write replaced by one token. *)
MaskCursorUp(ws) == [k \in 1..Len(ws) |-> IF IsCursorUp(ws[k]) THEN W("up") ELSE ws[k]]

(* C30: a partial update splits the differing indices below                 *)
(* min(previousLength, candidateLength) into maximal runs of consecutive    *)
(* indices and emits each run as save-cursor, cursor-up, carriage return,   *)
(* one clear-line-plus-content write per index with a line feed only        *)
(* between lines of the same run, restore-cursor; the clear-line writes are *)
(* as many as the differing indices and no unchanged index is written.      *)
C30_RunsOfDifferingIndices ==
    NoRebuild =>
        LET n == Min(Len(cycle.old), Len(cycle.new))
            d == DiffIndices(cycle.old, cycle.new, n)
            tail == IF Len(cycle.new) > Len(cycle.old)
                    THEN AppendLog(cycle.new, Len(cycle.old)) ELSE <<>>
            patches == SelectSeq(writes, IsClearLineWrite)
        IN  /\ MaskCursorUp(writes) = RunsLog(cycle.new, d, 1) \o tail
            /\ Len(patches) = Len(d)
            /\ \A k \in 1..Len(patches) : patches[k].line = d[k]
            /\ \A k \in 1..Len(writes) :
                  (writes[k].line >= 0 /\ writes[k].line < n)
                  => At(cycle.old, writes[k].line) # At(cycle.new, writes[k].line)

C30_Witness ==
    /\ NoRebuild
    /\ Len(SelectSeq(writes, LAMBDA w : w.data = SaveCursor)) = 2
    /\ Len(SelectSeq(writes, IsClearLineWrite)) = 2

(* C25: when a terminal write fails during a render cycle the failure       *)
(* leaves the cycle, the writes attempted are those before the failing one  *)
(* and the failing one, each once and in order, no later write of the cycle *)
(* is issued, and the previous buffer is not replaced by the candidate.     *)
C25_WriteFailurePropagates ==
    CycleThrew =>
        /\ ~cycle.ran
        /\ writes = SubSeq(op.planned, 1, op.failedAt)
        /\ oldBuffer = op.old

C25_Witness ==
    /\ CycleThrew
    /\ op.failedAt > 1
    /\ op.failedAt < Len(op.planned)
    /\ op.new # op.old
    /\ op.old # <<>>

(* The string has no style code: no escape character. *)
Plain(str) == \A k \in 1..Len(str) : str[k] # ESC

RECURSIVE Concat(_)
Concat(strs) == IF strs = <<>> THEN <<>> ELSE Head(strs) \o Concat(Tail(strs))

(* The chunks of one line at a width: the line cut every width characters,  *)
(* the empty line being one empty chunk.                                    *)
ChunksOf(line, width) ==
    IF line = <<>> THEN << <<>> >>
    ELSE [k \in 1..((Len(line) + width - 1) \div width) |->
             SubSeq(line, (k - 1) * width + 1, Min(k * width, Len(line)))]

RECURSIVE ChunksOfAll(_, _)
ChunksOfAll(inputLines, width) ==
    IF inputLines = <<>> THEN <<>>
    ELSE ChunksOf(Head(inputLines), width) \o ChunksOfAll(Tail(inputLines), width)

(* C26: for text without style codes and width >= 1, wrapText returns for   *)
(* each input line chunks whose concatenation is that line, every chunk at  *)
(* most width long and every chunk but the line's last exactly width long;  *)
(* for width <= 0 it returns no lines.                                      *)
C26_WrapTextChunks ==
    (op.name = "wrapText" /\ Plain(op.text)) =>
        IF op.width <= 0 THEN op.result = <<>>
        ELSE /\ op.result = ChunksOfAll(SplitLines(op.text, <<>>), op.width)
             /\ \A k \in 1..Len(op.result) : GetVisibleLength(op.result[k]) <= op.width

C26_Witness ==
    /\ op.name = "wrapText"
    /\ op.width = 2
    /\ op.text = <<"a", "b", " ", "a", "b">>
    /\ op.result = << <<"a", "b">>, <<" ", "a">>, <<"b">> >>

(* The words of a string: its maximal runs of characters other than space. *)
RECURSIVE WordsOf(_, _)
WordsOf(str, current) ==
    IF str = <<>> THEN (IF current = <<>> THEN <<>> ELSE <<current>>)
    ELSE IF Head(str) = " "
         THEN (IF current = <<>> THEN <<>> ELSE <<current>>) \o WordsOf(Tail(str), <<>>)
    ELSE WordsOf(Tail(str), Append(current, Head(str)))

RECURSIVE WordsOfAll(_)
WordsOfAll(strs) ==
    IF strs = <<>> THEN <<>> ELSE WordsOf(Head(strs), <<>>) \o WordsOfAll(Tail(strs))

(* Non-empty words separated by single spaces, each no longer than width. *)
SpacedWords(text, width) ==
    /\ text # <<>>
    /\ \A k \in 1..Len(text) : text[k] \notin {ESC, LF}
    /\ text[1] # " "
    /\ text[Len(text)] # " "
    /\ \A k \in 1..(Len(text) - 1) : ~(text[k] = " " /\ text[k + 1] = " ")
    /\ \A k \in 1..Len(WordsOf(text, <<>>)) : Len(WordsOf(text, <<>>)[k]) <= width

(* C27: for text without style codes made of non-empty words separated by   *)
(* single spaces, each word no longer than width, wordWrapText returns only *)
(* non-empty lines, each at most width long and without trailing space, and *)
(* the words of the lines read in order are the words of the input.         *)
C27_WordWrapKeepsWords ==
    (op.name = "wordWrapText" /\ op.width >= 1 /\ SpacedWords(op.text, op.width)) =>
        /\ \A k \in 1..Len(op.result) :
              /\ op.result[k] # <<>>
              /\ GetVisibleLength(op.result[k]) <= op.width
              /\ op.result[k][Len(op.result[k])] # " "
        /\ WordsOfAll(op.result) = WordsOf(op.text, <<>>)

(* C22: two consecutive render(width) calls on a component with the same    *)
(* width and no handleInput or setter between them end the same way and     *)
(* return identical lines, for every component and every reachable state.   *)
C22_RepeatedRenderSameLines ==
    (op.name = "render" /\ op.prev # <<>>) =>
        /\ op.outcome = op.prev[1].outcome
        /\ op.result = op.prev[1].result

(* A SingleLineInput whose first render moved the scroll offset is rendered *)
(* again at the same width.                                                 *)
C22_Witness ==
    /\ op.name = "render" /\ op.prev # <<>>
    /\ op.component = "singleLineInput"
    /\ op.outcome = "returned"
    /\ op.base.singleLineInput.scrollOffset # singleLineInput.scrollOffset

(* C23: render(width) changes no state of any component, and what it        *)
(* returns is what it would return had no other render been called since    *)
(* the last handleInput or setter.                                          *)
C23_RenderIsPure ==
    op.name = "render" =>
        /\ World = op.before
        /\ op.outcome = "returned" =>
              op.result = RenderSubject(op.base, children["c1"], op.width).lines

(* C24: every line a component's render(width) returns has a visible length *)
(* of at most width, for every width of at least 1.                         *)
C24_LinesFitWidth ==
    (op.name = "render" /\ op.outcome = "returned" /\ op.width >= 1) =>
        \A k \in 1..Len(op.result) : GetVisibleLength(op.result[k]) <= op.width

Whitespace == {" ", LF, CR, TAB}

(* t is str without its leading and trailing whitespace. *)
IsTrimmed(t, str) ==
    /\ t # <<>> => t[1] \notin Whitespace /\ t[Len(t)] \notin Whitespace
    /\ \E a \in 0..Len(str), b \in 0..Len(str) :
          /\ a + Len(t) + b = Len(str)
          /\ SubSeq(str, a + 1, a + Len(t)) = t
          /\ \A k \in (1..a) \cup ((a + Len(t) + 1)..Len(str)) : str[k] \in Whitespace

PlainEnter == op.name = "handleInput" /\ op.component = "textEditor" /\ op.data = <<CR>>

(* C28: plain Enter in a TextEditor with submission enabled leaves a single *)
(* empty line with the cursor at line 0, column 0 and calls onChange("")    *)
(* and then onSubmit with the trimmed text the editor held; with            *)
(* disableSubmit set it changes neither lines nor cursor and calls          *)
(* neither callback.                                                        *)
C28_PlainEnterSubmits ==
    PlainEnter =>
        IF op.before.textEditor.disableSubmit
        THEN textEditor = op.before.textEditor /\ callbacks = <<>>
        ELSE /\ textEditor.lines = << <<>> >>
             /\ textEditor.cursorLine = 0
             /\ textEditor.cursorCol = 0
             /\ Len(callbacks) = 2
             /\ callbacks[1] = [name |-> "onChange", arg |-> <<>>]
             /\ callbacks[2].name = "onSubmit"
             /\ IsTrimmed(callbacks[2].arg, JoinLines(op.before.textEditor.lines))

(* Enter submits a text of more than one line that trimming shortens. *)
C28_Witness ==
    /\ PlainEnter
    /\ ~op.before.textEditor.disableSubmit
    /\ Len(op.before.textEditor.lines) > 1
    /\ callbacks[2].arg # <<>>
    /\ callbacks[2].arg # JoinLines(op.before.textEditor.lines)

(* C37: in Menu, whenever the entry list is not empty the selected index    *)
(* lies between 0 and entries.length - 1, after any sequence of setEntries  *)
(* and handleInput calls.                                                   *)
C37_MenuSelectionInRange ==
    (subject = "menu" /\ menu.entries # <<>>) =>
        (0 <= menu.selectedIndex /\ menu.selectedIndex <= Len(menu.entries) - 1)

(* C38: in SingleLineInput 0 <= cursorPosition <= value.length always       *)
(* holds, and after every render the cursor lies inside the visible window  *)
(* that starts at scrollOffset and is max(1, width - promptLength) wide.    *)
C38_CursorInsideValueAndWindow ==
    /\ 0 <= singleLineInput.cursorPosition
    /\ singleLineInput.cursorPosition <= Len(singleLineInput.value)
    /\ (op.name = "render" /\ op.component = "singleLineInput") =>
          /\ singleLineInput.scrollOffset <= singleLineInput.cursorPosition
          /\ singleLineInput.cursorPosition <
                singleLineInput.scrollOffset
                + Max(1, op.width - GetVisibleLength(singleLineInput.prompt))

(* setValue shortens the value under a cursor that stood behind its end. *)
C38_Witness ==
    /\ op.name = "setValue"
    /\ op.before.singleLineInput.cursorPosition > Len(singleLineInput.value)
    /\ singleLineInput.cursorPosition = Len(singleLineInput.value)

(* C39: in TextEditor the line list is never empty, cursorLine is the index *)
(* of one of its lines and cursorCol lies between 0 and the length of that  *)
(* line, after any sequence of handleInput, setText and clear calls.        *)
C39_EditorCursorInsideText ==
    /\ Len(textEditor.lines) >= 1
    /\ 0 <= textEditor.cursorLine
    /\ textEditor.cursorLine < Len(textEditor.lines)
    /\ 0 <= textEditor.cursorCol
    /\ textEditor.cursorCol <= Len(textEditor.lines[textEditor.cursorLine + 1])

(* Ctrl+K removes a line and leaves the cursor on a shorter one. *)
C39_Witness ==
    /\ op.name = "handleInput" /\ op.component = "textEditor" /\ op.data = <<CtrlK>>
    /\ Len(op.before.textEditor.lines) > 1
    /\ textEditor.cursorCol < op.before.textEditor.cursorCol

(* C34: isFirstRender is true exactly while no cycle has completed since    *)
(* construction or since the last resize: it starts true, every resize sets *)
(* it, only the forced full rebuild clears it, and a full rebuild caused by *)
(* a shorter candidate or by a change above the viewport leaves it false;   *)
(* so the cycle after a forced rebuild, given the same content, writes      *)
(* nothing.                                                                 *)
C34_ForcedFlagLifetime ==
    /\ isFirstRender <=> (lastFrame = <<>> \/ resized)
    /\ cycle.ran => ~isFirstRender
    /\ (/\ cycle.ran
        /\ cycle.prevFrame = <<cycle.new>>
        /\ ~cycle.afterResize) => (cycle.old = cycle.new /\ writes = <<>>)

C34_Witness ==
    /\ cycle.ran
    /\ cycle.prevFrame # <<>>
    /\ ~cycle.afterResize
    /\ Len(cycle.new) < Len(cycle.old)
    /\ HasData(writes, ClearScrollback)
    /\ ~isFirstRender

(* C36: TUI.stop() leaves oldBuffer and isFirstRender as they were, so      *)
(* after start, a completed render, stop and start again, the first render  *)
(* of the new session is diffed against the old session's buffer: with the  *)
(* content unchanged and no resize between, it writes nothing.              *)
C36_StopKeepsFrame ==
    /\ [][life' = Append(life, "stop") =>
              (oldBuffer' = oldBuffer /\ isFirstRender' = isFirstRender)]_vars
    /\ []((/\ cycle.ran
           /\ LifeEndsWith(<<"stop", "start">>)
           /\ cycle.prevFrame = <<cycle.new>>
           /\ ~cycle.afterResize) => (cycle.old = cycle.new /\ writes = <<>>))

C36_Witness ==
    /\ cycle.ran
    /\ life = <<"start", "stop", "start">>
    /\ cycle.prevFrame = <<cycle.new>>
    /\ ~cycle.afterResize
    /\ Len(cycle.new) >= 2
    /\ cycle.old = cycle.new
    /\ writes = <<>>

C32_RequestLeadsToCycle ==
    /\ renderRequested ~> ~renderRequested
    /\ [](renderRequested <=> (tickQueue = 1))
    /\ [](op.name = "tick" => (~renderRequested /\ tickQueue = 0))
    /\ [](op.name = "update" => (renderRequested /\ tickQueue = 1))

C32_Witness ==
    /\ op.name = "update"
    /\ life # <<>>
    /\ lastFrame = <<>>
    /\ renderRequested
    /\ tickQueue = 1

(* C33: a requestRender made while a cycle executes is not dropped: the     *)
(* cycle ends with one deferred cycle pending, and whenever nothing is      *)
(* pending the last rendered frame is the frame of the current state.       *)
C33_ReentrantRequestKept ==
    /\ tickQueue <= 1
    /\ renderRequested <=> (tickQueue = 1)
    /\ (op.name = "tick" /\ op.reentrant) =>
          /\ cycle.ran
          /\ cycle.new = op.state
          /\ renderRequested
          /\ tickQueue = 1
    /\ (tickQueue = 0 /\ lastFrame # <<>>) => lastFrame = <<rootLines>>

C33_Witness ==
    /\ op.name = "tick"
    /\ op.reentrant
    /\ cycle.prevFrame # <<>>
    /\ rootLines # cycle.new
    /\ renderRequested
    /\ tickQueue = 1

(* C35: TUI.removeChild and TUI.clear leave the focus reference as it was;  *)
(* a focused component that is no longer a child of the root still gets     *)
(* every chunk through its handleInput, each delivery leaves a render       *)
(* pending, and the cycle that follows renders the remaining children only: *)
(* no line of its candidate carries the input's prompt or cursor.           *)
C35_RemovedComponentKeepsFocus ==
    /\ rootLines = FocusFrame(children["c1"], World)
    /\ op.name \in {"removeChild", "clear"} => focusedComponent = op.focus
    /\ (/\ op.name = "handleInput"
        /\ op.focus = "singleLineInput"
        /\ ~InSeq(op.kids, "singleLineInput")) =>
          /\ singleLineInput = SingleLineInputHandleInput(op.input, op.arg).state
          /\ renderRequested
          /\ tickQueue = 1
    /\ (op.name = "tick" /\ ~InSeq(op.kids, "singleLineInput")) =>
          /\ cycle.ran
          /\ cycle.new = JoinAll(op.input)
          /\ \A k \in 1..Len(op.input) :
                /\ ~InSeq(op.input[k], ">")
                /\ ~InSeq(op.input[k], ESC)

C35_Witness ==
    /\ op.name = "handleInput"
    /\ op.focus = "singleLineInput"
    /\ op.kids = <<"textComponent">>
    /\ lastFrame # <<>>
    /\ Len(lastFrame[1]) = 2
    /\ singleLineInput.value # op.input.value
    /\ ~op.pending
    /\ renderRequested

====
